---------------------------- MODULE Spec2Model ----------------------------
(***************************************************************************)
(* Model of the skillhub-cli sync core (src/core/syncCore.ts, held in      *)
(* src/unnamed/part_001): skill normalisation, de-duplication and sorting, *)
(* set equality, and the four plan builders (merge, auto, pull, push);     *)
(* then of isValidSource, parseStrategy and the sync commands that run the *)
(* plans (src/commands/sync.ts) against the config store, the gist and     *)
(* the skills command.                                                     *)
(*                                                                         *)
(* JavaScript strings of skill names and sources are sequences of          *)
(* one-character strings, so that the key `${source}:${name}`, the         *)
(* substring test and the collation are computed and not assumed.  One     *)
(* character outside ASCII is in the alphabet, written "U+212A" (KELVIN    *)
(* SIGN): it is canonically equivalent to "K", and ECMA-262 requires       *)
(* String.prototype.localeCompare to return +0 for distinguishable strings *)
(* that are canonically equivalent.                                        *)
(*                                                                         *)
(* Timestamps are opaque strings with a table for Date.parse.              *)
(***************************************************************************)
EXTENDS Integers, Sequences, FiniteSets, TLC

(***************************************************************************)
(* Bounds of the model.                                                    *)
(***************************************************************************)
\* Longest skills array of a payload given to the core.
MaxLen == 2

(***************************************************************************)
(* JavaScript values.                                                      *)
(***************************************************************************)
JsUndefined == [t |-> "undefined"]
JsNull == [t |-> "null"]
JsString(s) == [t |-> "string", s |-> s]
JsObject(name, source) == [t |-> "object", name |-> name, source |-> source]

\* x ?? y
Nullish(v) == v.t \in {"undefined", "null"}

\* skill?.field for a skill that is an object, null or undefined
OptField(skill, field) == IF skill.t = "object" THEN skill[field] ELSE JsUndefined

(***************************************************************************)
(* Constants of syncCore.ts.                                               *)
(***************************************************************************)
DEFAULT_SKILL_SOURCE_REPO ==
    <<"v", "e", "r", "c", "e", "l", "-", "l", "a", "b", "s", "/",
      "a", "g", "e", "n", "t", "-", "s", "k", "i", "l", "l", "s">>

BANNED_SKILL_NAME_SUBSTRINGS ==
    { <<"N", "o", " ", "g", "l", "o", "b", "a", "l", " ", "s", "k", "i", "l",
        "l", "s", " ", "f", "o", "u", "n", "d">>,
      <<"T", "r", "y", " ", "l", "i", "s", "t", "i", "n", "g", " ", "p", "r",
        "o", "j", "e", "c", "t", " ", "s", "k", "i", "l", "l", "s", " ", "w",
        "i", "t", "h", "o", "u", "t", " ", "-", "g">>,
      <<"N", "o", " ", "p", "r", "o", "j", "e", "c", "t", " ", "s", "k", "i",
        "l", "l", "s", " ", "f", "o", "u", "n", "d">>,
      <<"T", "r", "y", " ", "l", "i", "s", "t", "i", "n", "g", " ", "g", "l",
        "o", "b", "a", "l", " ", "s", "k", "i", "l", "l", "s">> }

(***************************************************************************)
(* String.prototype.includes and String.prototype.localeCompare.           *)
(***************************************************************************)
StringIncludes(str, sub) ==
    \E i \in 0..(Len(str) - Len(sub)) : SubSeq(str, i + 1, i + Len(sub)) = sub

\* Canonical decomposition of a character (Unicode singleton mappings).
CanonicalChar(c) == IF c = "U+212A" THEN "K" ELSE c

UpperCase == <<"A", "B", "C", "D", "E", "F", "G", "H", "I", "J", "K", "L", "M",
               "N", "O", "P", "Q", "R", "S", "T", "U", "V", "W", "X", "Y", "Z">>
LowerCase == <<"a", "b", "c", "d", "e", "f", "g", "h", "i", "j", "k", "l", "m",
               "n", "o", "p", "q", "r", "s", "t", "u", "v", "w", "x", "y", "z">>

\* Primary order of the root collation (CLDR): white space, punctuation,
\* digits, letters; letters of both cases share a primary weight.
CollationOrder ==
    <<" ", "_", "-", ":", ".", "/",
      "0", "1", "2", "3", "4", "5", "6", "7", "8", "9">> \o LowerCase

IndexIn(seq, c) == CHOOSE i \in 1..Len(seq) : seq[i] = c

IsUpper(c) == \E i \in 1..Len(UpperCase) : UpperCase[i] = c

ToLowerCase(c) == IF IsUpper(c) THEN LowerCase[IndexIn(UpperCase, c)] ELSE c

Alphabet ==
    {CollationOrder[i] : i \in 1..Len(CollationOrder)}
        \cup {UpperCase[i] : i \in 1..Len(UpperCase)} \cup {"U+212A"}

\* Canonically equivalent characters have the same weights.
PrimaryWeights ==
    [c \in Alphabet |-> IndexIn(CollationOrder, ToLowerCase(CanonicalChar(c)))]

\* Tertiary weight: lower case sorts before upper case.
TertiaryWeights ==
    [c \in Alphabet |-> IF IsUpper(CanonicalChar(c)) THEN 1 ELSE 0]

PrimaryWeight(c) == PrimaryWeights[c]

TertiaryWeight(c) == TertiaryWeights[c]

\* Lexicographic comparison of two weight sequences: -1, 0 or 1.
CompareWeights(a, b) ==
    LET n == IF Len(a) < Len(b) THEN Len(a) ELSE Len(b)
        diff == {i \in 1..n : a[i] # b[i]}
    IN  IF diff = {}
        THEN IF Len(a) < Len(b) THEN -1 ELSE IF Len(a) > Len(b) THEN 1 ELSE 0
        ELSE LET i == CHOOSE j \in diff : \A k \in diff : j <= k
             IN  IF a[i] < b[i] THEN -1 ELSE 1

\* The first level that tells the strings apart decides.
firstDifference(primary, tertiary) == IF primary # 0 THEN primary ELSE tertiary

localeCompare(a, b) ==
    firstDifference(
        CompareWeights([i \in 1..Len(a) |-> PrimaryWeight(a[i])],
                       [i \in 1..Len(b) |-> PrimaryWeight(b[i])]),
        CompareWeights([i \in 1..Len(a) |-> TertiaryWeight(a[i])],
                       [i \in 1..Len(b) |-> TertiaryWeight(b[i])]))

(***************************************************************************)
(* uniqueSortedSkills                                                      *)
(***************************************************************************)
SkillInfo(name, source) == [name |-> name, source |-> source]

\* `${skill.source}:${skill.name}`
skillKey(skill) == skill.source \o <<":">> \o skill.name

\* The for loop of uniqueSortedSkills: the first record of each key is kept.
RECURSIVE dedupeLoop(_, _, _, _)
dedupeLoop(skills, i, seen, result) ==
    IF i > Len(skills)
    THEN result
    ELSE LET key == skillKey(skills[i])
         IN  IF key \notin seen
             THEN dedupeLoop(skills, i + 1, seen \cup {key}, Append(result, skills[i]))
             ELSE dedupeLoop(skills, i + 1, seen, result)

\* The comparator given to sort.
sortComparator(a, b) ==
    IF a.source # b.source
    THEN localeCompare(a.source, b.source)
    ELSE localeCompare(a.name, b.name)

\* Array.prototype.sort with sortComparator.  The sort of ECMAScript is
\* stable, and when the comparator is not a consistent one the order is
\* implementation-defined; the model sorts as V8 (Node.js) sorts an array of
\* fewer than 64 elements: the leading run is found (and reversed when it is
\* strictly descending), then every later element is put in place by binary
\* insertion.  Indices are those of JavaScript (from 0): array[k] is a[k + 1].
\* Every intermediate value is an operator's argument, so that it is written
\* once.
runBreaks(order, isDescending) ==
    (isDescending /\ order >= 0) \/ (~isDescending /\ order < 0)

RECURSIVE runEnd(_, _, _)
runEnd(a, idx, isDescending) ==
    IF idx >= Len(a)
    THEN idx
    ELSE IF runBreaks(sortComparator(a[idx + 1], a[idx]), isDescending)
         THEN idx
         ELSE runEnd(a, idx + 1, isDescending)

reverseSeq(a) == [i \in 1..Len(a) |-> a[Len(a) + 1 - i]]

RECURSIVE binarySearch(_, _, _, _)
binarySearch(a, pivot, left, right) ==
    IF left >= right
    THEN left
    ELSE IF sortComparator(pivot, a[left + ((right - left) \div 2) + 1]) < 0
         THEN binarySearch(a, pivot, left, left + ((right - left) \div 2))
         ELSE binarySearch(a, pivot, left + ((right - left) \div 2) + 1, right)

\* array[start] moves to index left, the elements between shift right.
insertAt(a, start, left) ==
    SubSeq(a, 1, left) \o <<a[start + 1]>> \o SubSeq(a, left + 1, start)
        \o SubSeq(a, start + 2, Len(a))

RECURSIVE binaryInsertionSort(_, _)
binaryInsertionSort(a, start) ==
    IF start >= Len(a)
    THEN a
    ELSE binaryInsertionSort(
             insertAt(a, start, binarySearch(a, a[start + 1], 0, start)),
             start + 1)

sortAfterRun(skills, isDescending, runLength) ==
    binaryInsertionSort(
        IF isDescending
        THEN reverseSeq(SubSeq(skills, 1, runLength))
                 \o SubSeq(skills, runLength + 1, Len(skills))
        ELSE skills,
        runLength)

sortFromRun(skills, isDescending) ==
    sortAfterRun(skills, isDescending, runEnd(skills, 2, isDescending))

\* A sort that reverses its input instead of ordering it.
sortSkillsReversing(skills) ==
    IF Len(skills) < 2
    THEN skills
    ELSE reverseSeq(skills)

sortSkills(skills) ==
    IF Len(skills) < 2
    THEN skills
    ELSE sortFromRun(skills, sortComparator(skills[2], skills[1]) < 0)

uniqueSortedSkills(skills) == sortSkills(dedupeLoop(skills, 1, {}, <<>>))

(***************************************************************************)
(* normalizeSkills and areSameSkills                                       *)
(***************************************************************************)
\* The map callback of normalizeSkills.  String(v) of a string is the string;
\* names and sources that are neither strings nor nullish are not modelled.
normalizeEntry(skill) ==
    IF skill.t = "string"
    THEN SkillInfo(skill.s, DEFAULT_SKILL_SOURCE_REPO)
    ELSE LET name == OptField(skill, "name")
             source == OptField(skill, "source")
         IN  SkillInfo(IF Nullish(name) THEN <<>> ELSE name.s,
                       IF Nullish(source) THEN DEFAULT_SKILL_SOURCE_REPO ELSE source.s)

\* The filter callback of normalizeSkills.
keepsName(skill) ==
    /\ Len(skill.name) > 0
    /\ ~ \E bad \in BANNED_SKILL_NAME_SUBSTRINGS : StringIncludes(skill.name, bad)

normalizeSkills(skills) ==
    LET mapped == [i \in 1..Len(skills) |-> normalizeEntry(skills[i])]
        normalized == SelectSeq(mapped, keepsName)
    IN  uniqueSortedSkills(normalized)

sameSorted(leftSorted, rightSorted) ==
    IF Len(leftSorted) # Len(rightSorted)
    THEN FALSE
    ELSE \A index \in 1..Len(leftSorted) :
             /\ leftSorted[index].name = rightSorted[index].name
             /\ leftSorted[index].source = rightSorted[index].source

areSameSkills(left, right) ==
    sameSorted(uniqueSortedSkills(left), uniqueSortedSkills(right))

(***************************************************************************)
(* parseTimestamp.  Date.parse is a table over the timestamps of the       *)
(* model; instants are milliseconds from the epoch and NaN is "NaN".       *)
(***************************************************************************)
DateParse(value) ==
    CASE value = "1969-12-31T23:59:59.999Z" -> [nan |-> FALSE, ms |-> -1]
      [] value = "1970-01-01T00:00:00.000Z" -> [nan |-> FALSE, ms |-> 0]
      [] value = "1970-01-01T00:00:00.001Z" -> [nan |-> FALSE, ms |-> 1]
      [] value = "1970-01-01T00:00:00.001+00:00" -> [nan |-> FALSE, ms |-> 1]
      [] value = "1970-01-01T00:00:00.002Z" -> [nan |-> FALSE, ms |-> 2]
      [] value = "1970-01-01T00:00:00.003Z" -> [nan |-> FALSE, ms |-> 3]
      [] value = "1970-01-01T00:00:00.004Z" -> [nan |-> FALSE, ms |-> 4]
      [] OTHER -> [nan |-> TRUE, ms |-> 0]

JsNumber(n) == [t |-> "number", n |-> n]

\* value is undefined (JsUndefined) or a string (JsString of a timestamp)
finiteOrNull(parsed) == IF ~parsed.nan THEN JsNumber(parsed.ms) ELSE JsNull

parseTimestamp(value) ==
    IF value.t = "undefined" \/ value.s = ""
    THEN JsNull
    ELSE finiteOrNull(DateParse(value.s))

(***************************************************************************)
(* The plan builders.                                                      *)
(***************************************************************************)
\* Mutants of hasSkill: the match looks at the name only, at the source only.
hasSkillByName(skills, skill) ==
    \E i \in 1..Len(skills) : skills[i].name = skill.name

hasSkillBySource(skills, skill) ==
    \E i \in 1..Len(skills) : skills[i].source = skill.source

\* skills.some((s) => s.name === skill.name && s.source === skill.source)
hasSkill(skills, skill) ==
    \E i \in 1..Len(skills) :
        skills[i].name = skill.name /\ skills[i].source = skill.source

\* A SkillhubPayload object (null is JsNull).
Payload(skills, updatedAt) ==
    [t |-> "object", skills |-> skills, updatedAt |-> updatedAt]

\* a.filter((skill) => !b.some(...)): the records of a that b does not hold
difference(a, b) ==
    LET absent(skill) == ~hasSkill(b, skill)
    IN  SelectSeq(a, absent)

\* The plan builders bind localSkills, remoteSkills and what is computed from
\* them once: each is the argument of the operator that goes on.
mergePlanOfUnion(localSkills, remoteSkills, unionSkills, nowIso) ==
    [mode |-> "merge",
     localSkills |-> localSkills,
     remoteSkills |-> remoteSkills,
     installCandidates |-> difference(unionSkills, localSkills),
     uploadPayload |->
         IF areSameSkills(remoteSkills, unionSkills)
         THEN JsNull
         ELSE Payload(unionSkills, nowIso)]

mergePlanOf(localSkills, remoteSkills, nowIso) ==
    mergePlanOfUnion(localSkills, remoteSkills,
                     uniqueSortedSkills(localSkills \o remoteSkills), nowIso)

buildMergePlan(params) ==
    mergePlanOf(normalizeSkills(params.localPayload.skills),
                normalizeSkills(params.remotePayload.skills),
                params.nowIso)

\* parseTimestamp(params.lastSyncAt) ?? 0
orZero(parsed) == IF Nullish(parsed) THEN 0 ELSE parsed.n

lastSyncTimeOf(lastSyncAt) == orZero(parseTimestamp(lastSyncAt))

\* Mutant of remoteIsNewer: an equal instant counts as newer.
remoteIsNewerOrEqual(remoteTime, lastSyncTime) ==
    remoteTime.t # "null" /\ remoteTime.n >= lastSyncTime

\* remoteTime !== null && remoteTime > lastSyncTime
remoteIsNewer(remoteTime, lastSyncTime) ==
    remoteTime.t # "null" /\ remoteTime.n > lastSyncTime

autoPlanOf(localSkills, remoteSkills, isRemoteNewer, nowIso) ==
    IF isRemoteNewer
    THEN [mode |-> "auto",
          localSkills |-> localSkills,
          remoteSkills |-> remoteSkills,
          installCandidates |-> difference(remoteSkills, localSkills),
          uploadPayload |-> JsNull,
          isRemoteNewer |-> isRemoteNewer]
    ELSE [mode |-> "auto",
          localSkills |-> localSkills,
          remoteSkills |-> remoteSkills,
          installCandidates |-> <<>>,
          uploadPayload |->
              IF areSameSkills(localSkills, remoteSkills)
              THEN JsNull
              ELSE Payload(localSkills, nowIso),
          isRemoteNewer |-> isRemoteNewer]

buildAutoPlan(params) ==
    autoPlanOf(normalizeSkills(params.localPayload.skills),
               normalizeSkills(params.remotePayload.skills),
               remoteIsNewer(parseTimestamp(JsString(params.remotePayload.updatedAt)),
                             lastSyncTimeOf(params.lastSyncAt)),
               params.nowIso)

pullPlanOf(localSkills, remoteSkills) ==
    [mode |-> "pull",
     localSkills |-> localSkills,
     remoteSkills |-> remoteSkills,
     installCandidates |-> difference(remoteSkills, localSkills),
     removeCandidates |-> difference(localSkills, remoteSkills)]

buildPullPlan(params) ==
    pullPlanOf(normalizeSkills(params.localPayload.skills),
               normalizeSkills(params.remotePayload.skills))

pushPlanOf(localSkills, remoteSkills, nowIso) ==
    [mode |-> "push",
     localSkills |-> localSkills,
     remoteSkills |-> remoteSkills,
     uploadPayload |->
         IF areSameSkills(localSkills, remoteSkills)
         THEN JsNull
         ELSE Payload(localSkills, nowIso)]

buildPushPlan(params) ==
    pushPlanOf(normalizeSkills(params.localPayload.skills),
               normalizeSkills(params.remotePayload.skills),
               params.nowIso)

(***************************************************************************)
(* The state machine: the arguments are drawn, then one function of the    *)
(* core is called on them and its result kept.                             *)
(***************************************************************************)
VARIABLES
    localPayloadSkills,     \* localPayload.skills, as given
    remotePayloadSkills,    \* remotePayload.skills, as given
    call,                   \* the call made: function and remaining arguments
    ret,                    \* what the call returned
    config,                 \* the config store: githubToken, gistId, lastSyncAt
    gist,                   \* the user's gist holding skillhub.json, if any
    installed,              \* the globally installed skills
    run,                    \* the sync run made: options, outcome, effects
    retry,                  \* the retryAsync call in progress
    merges                  \* the runSyncMerge runs in progress on two machines

vars == <<localPayloadSkills, remotePayloadSkills, call, ret,
          config, gist, installed, run, retry, merges>>

\* The stores and the run of the sync commands, which the calls of the core
\* leave alone.
syncVars == <<config, gist, installed, run, retry, merges>>

NoGist == [t |-> "none"]
NoRun == [mode |-> "none"]
NoRetry == [pc |-> "none"]
NoMerges == <<>>

\* No session, no gist, no skill installed, no run made.
NoSync ==
    /\ config = [githubToken |-> JsUndefined, gistId |-> JsUndefined,
                 lastSyncAt |-> JsUndefined]
    /\ gist = NoGist
    /\ installed = {}
    /\ run = NoRun
    /\ retry = NoRetry
    /\ merges = NoMerges

\* "o/K", "o/K:x" and "o/<KELVIN SIGN>"
SourceK == <<"o", "/", "K">>
SourceKx == <<"o", "/", "K", ":", "x">>
SourceKelvin == <<"o", "/", "U+212A">>
NameN == <<"n">>
NameXN == <<"x", ":", "n">>

\* The entries a skills array is made of: two records with the same key, two
\* with canonically equivalent sources, a legacy bare name, and an object
\* with an empty name and no source.
RawEntries ==
    { JsObject(JsString(NameXN), JsString(SourceK)),
      JsObject(JsString(NameN), JsString(SourceKx)),
      JsObject(JsString(NameN), JsString(SourceKelvin)),
      JsObject(JsString(NameN), JsString(SourceK)),
      JsString(NameN),
      JsObject(JsString(<<>>), JsUndefined) }

RECURSIVE SeqsUpTo(_, _)
SeqsUpTo(S, n) ==
    IF n = 0
    THEN {<<>>}
    ELSE LET shorter == SeqsUpTo(S, n - 1)
         IN  shorter \cup {Append(q, e) : q \in shorter, e \in S}

RawSkillArrays == SeqsUpTo(RawEntries, MaxLen)

\* An entry that is a SkillInfo as the type declares it.
IsSkillInfo(entry) ==
    entry.t = "object" /\ entry.name.t = "string" /\ entry.source.t = "string"

IsSkillInfoArray(skills) == \A i \in 1..Len(skills) : IsSkillInfo(skills[i])

AsSkillInfoArray(skills) ==
    [i \in 1..Len(skills) |-> SkillInfo(skills[i].name.s, skills[i].source.s)]

UpdatedAts ==
    { "", "not-a-date", "1969-12-31T23:59:59.999Z",
      "1970-01-01T00:00:00.001+00:00", "1970-01-01T00:00:00.002Z" }

LastSyncAts ==
    { JsUndefined, JsString("not-a-date"), JsString("1970-01-01T00:00:00.001Z") }

NowIsos == { "1970-01-01T00:00:00.003Z", "1970-01-01T00:00:00.004Z" }

LocalUpdatedAt == "1970-01-01T00:00:00.000Z"

NoCall == [fn |-> "none"]

Init ==
    /\ localPayloadSkills \in RawSkillArrays
    /\ remotePayloadSkills \in RawSkillArrays
    /\ call = NoCall
    /\ ret = JsUndefined
    /\ NoSync

Params(updatedAt, lastSyncAt, nowIso) ==
    [localPayload |-> Payload(localPayloadSkills, LocalUpdatedAt),
     remotePayload |-> Payload(remotePayloadSkills, updatedAt),
     lastSyncAt |-> lastSyncAt,
     nowIso |-> nowIso]

CallBuildMergePlan ==
    /\ call = NoCall
    /\ \E updatedAt \in {""}, nowIso \in NowIsos :
           /\ call' = [fn |-> "buildMergePlan", updatedAt |-> updatedAt,
                       lastSyncAt |-> JsUndefined, nowIso |-> nowIso]
           /\ ret' = buildMergePlan(Params(updatedAt, JsUndefined, nowIso))
    /\ UNCHANGED <<localPayloadSkills, remotePayloadSkills>>
    /\ UNCHANGED syncVars

CallBuildAutoPlan ==
    /\ call = NoCall
    /\ \E updatedAt \in UpdatedAts, lastSyncAt \in LastSyncAts,
          nowIso \in {"1970-01-01T00:00:00.003Z"} :
           /\ call' = [fn |-> "buildAutoPlan", updatedAt |-> updatedAt,
                       lastSyncAt |-> lastSyncAt, nowIso |-> nowIso]
           /\ ret' = buildAutoPlan(Params(updatedAt, lastSyncAt, nowIso))
    /\ UNCHANGED <<localPayloadSkills, remotePayloadSkills>>
    /\ UNCHANGED syncVars

CallBuildPullPlan ==
    /\ call = NoCall
    /\ \E updatedAt \in {""} :
           /\ call' = [fn |-> "buildPullPlan", updatedAt |-> updatedAt,
                       lastSyncAt |-> JsUndefined, nowIso |-> ""]
           /\ ret' = buildPullPlan(Params(updatedAt, JsUndefined, ""))
    /\ UNCHANGED <<localPayloadSkills, remotePayloadSkills>>
    /\ UNCHANGED syncVars

CallBuildPushPlan ==
    /\ call = NoCall
    /\ \E updatedAt \in {""}, nowIso \in NowIsos :
           /\ call' = [fn |-> "buildPushPlan", updatedAt |-> updatedAt,
                       lastSyncAt |-> JsUndefined, nowIso |-> nowIso]
           /\ ret' = buildPushPlan(Params(updatedAt, JsUndefined, nowIso))
    /\ UNCHANGED <<localPayloadSkills, remotePayloadSkills>>
    /\ UNCHANGED syncVars

CallNormalizeSkills ==
    /\ call = NoCall
    /\ call' = [fn |-> "normalizeSkills", skills |-> localPayloadSkills]
    /\ ret' = normalizeSkills(localPayloadSkills)
    /\ UNCHANGED <<localPayloadSkills, remotePayloadSkills>>
    /\ UNCHANGED syncVars

\* uniqueSortedSkills is called on one of the arrays or on both, concatenated.
CallUniqueSortedSkills ==
    /\ call = NoCall
    /\ \E raw \in {localPayloadSkills, localPayloadSkills \o remotePayloadSkills} :
           /\ IsSkillInfoArray(raw)
           /\ call' = [fn |-> "uniqueSortedSkills", skills |-> AsSkillInfoArray(raw)]
           /\ ret' = uniqueSortedSkills(AsSkillInfoArray(raw))
    /\ UNCHANGED <<localPayloadSkills, remotePayloadSkills>>
    /\ UNCHANGED syncVars

CallAreSameSkills ==
    /\ call = NoCall
    /\ IsSkillInfoArray(localPayloadSkills)
    /\ IsSkillInfoArray(remotePayloadSkills)
    /\ call' = [fn |-> "areSameSkills",
                left |-> AsSkillInfoArray(localPayloadSkills),
                right |-> AsSkillInfoArray(remotePayloadSkills)]
    /\ ret' = areSameSkills(AsSkillInfoArray(localPayloadSkills),
                            AsSkillInfoArray(remotePayloadSkills))
    /\ UNCHANGED <<localPayloadSkills, remotePayloadSkills>>
    /\ UNCHANGED syncVars

Next ==
    \/ CallBuildMergePlan
    \/ CallBuildAutoPlan
    \/ CallBuildPullPlan
    \/ CallBuildPushPlan
    \/ CallNormalizeSkills
    \/ CallUniqueSortedSkills
    \/ CallAreSameSkills

Spec == Init /\ [][Next]_vars

(***************************************************************************)
(* Properties.                                                             *)
(***************************************************************************)
SetOf(seq) == {seq[i] : i \in 1..Len(seq)}

IsPlanOf(fn) == call.fn = fn

\* C1: buildMergePlan returns uploadPayload = null exactly when every
\* normalized local record is already in the normalized remote set, and in
\* every other case { skills: union(local, remote), updatedAt: nowIso }.
C1_MergeUploadPayload ==
    IsPlanOf("buildMergePlan") =>
        LET L == SetOf(ret.localSkills)
            R == SetOf(ret.remoteSkills)
        IN  IF R = L \cup R
            THEN ret.uploadPayload = JsNull
            ELSE /\ ret.uploadPayload.t = "object"
                 /\ SetOf(ret.uploadPayload.skills) = L \cup R
                 /\ ret.uploadPayload.updatedAt = call.nowIso

\* C2: the installCandidates of buildMergePlan are exactly the members of
\* union(local, remote) with no exact (name, source) match in the normalized
\* local set: none is present locally, and every normalized remote record
\* missing from local is one.
C2_MergeInstallCandidates ==
    IsPlanOf("buildMergePlan") =>
        LET L == SetOf(ret.localSkills)
            R == SetOf(ret.remoteSkills)
        IN  SetOf(ret.installCandidates) = (L \cup R) \ L

\* C3: in a pull plan, installCandidates and the remote records present in
\* local are disjoint and together are the normalized remote set;
\* removeCandidates and the local records present in remote are disjoint and
\* together are the normalized local set.
C3_PullComplementarity ==
    IsPlanOf("buildPullPlan") =>
        LET L == SetOf(ret.localSkills)
            R == SetOf(ret.remoteSkills)
            I == SetOf(ret.installCandidates)
            D == SetOf(ret.removeCandidates)
        IN  /\ I \cap (R \cap L) = {}
            /\ I \cup (R \cap L) = R
            /\ D \cap (L \cap R) = {}
            /\ D \cup (L \cap R) = L

C3_Witness ==
    /\ IsPlanOf("buildPullPlan")
    /\ ret.installCandidates # <<>>
    /\ ret.removeCandidates # <<>>
    /\ SetOf(ret.localSkills) \cap SetOf(ret.remoteSkills) # {}

\* The instant a timestamp string stands for, if any.
HasInstant(str) == str # "" /\ ~DateParse(str).nan
InstantOf(str) == DateParse(str).ms

\* C4: isRemoteNewer is true exactly when remote.updatedAt parses to an
\* instant strictly greater than the parsed lastSyncAt, taken as 0 when
\* lastSyncAt is absent or unparsable; an equal instant gives false, and an
\* empty or unparsable remote.updatedAt gives false.
C4_IsRemoteNewer ==
    IsPlanOf("buildAutoPlan") =>
        LET last == IF call.lastSyncAt.t = "string" /\ HasInstant(call.lastSyncAt.s)
                    THEN InstantOf(call.lastSyncAt.s)
                    ELSE 0
        IN  ret.isRemoteNewer =
                (HasInstant(call.updatedAt) /\ InstantOf(call.updatedAt) > last)

\* The remote instant equals the instant of lastSyncAt, written differently.
C4_Witness ==
    /\ IsPlanOf("buildAutoPlan")
    /\ call.lastSyncAt = JsString("1970-01-01T00:00:00.001Z")
    /\ call.updatedAt = "1970-01-01T00:00:00.001+00:00"
    /\ ret.isRemoteNewer = FALSE

\* C5: when buildAutoPlan finds the remote newer, installCandidates are the
\* normalized remote records absent from normalized local and uploadPayload
\* is null, even when local holds records the remote lacks.
C5_AutoRemoteNewer ==
    (IsPlanOf("buildAutoPlan") /\ ret.isRemoteNewer) =>
        /\ SetOf(ret.installCandidates) =
               SetOf(ret.remoteSkills) \ SetOf(ret.localSkills)
        /\ ret.uploadPayload = JsNull

C5_Witness ==
    /\ IsPlanOf("buildAutoPlan")
    /\ ret.isRemoteNewer
    /\ ret.installCandidates # <<>>
    /\ SetOf(ret.localSkills) \ SetOf(ret.remoteSkills) # {}

\* C6: when buildAutoPlan finds the remote not newer, installCandidates is
\* empty, and uploadPayload is null if the normalized local and remote sets
\* are equal, otherwise { skills: normalized local, updatedAt: nowIso }.
C6_AutoRemoteNotNewer ==
    (IsPlanOf("buildAutoPlan") /\ ~ret.isRemoteNewer) =>
        /\ ret.installCandidates = <<>>
        /\ ret.uploadPayload =
               IF SetOf(ret.localSkills) = SetOf(ret.remoteSkills)
               THEN JsNull
               ELSE Payload(ret.localSkills, call.nowIso)

\* C7: buildPushPlan returns uploadPayload = null if the normalized local and
\* remote sets are equal, otherwise { skills: normalized local, updatedAt:
\* nowIso }; the plan carries no install or remove candidates.
C7_PushUploadPayload ==
    IsPlanOf("buildPushPlan") =>
        /\ ret.uploadPayload =
               IF SetOf(ret.localSkills) = SetOf(ret.remoteSkills)
               THEN JsNull
               ELSE Payload(ret.localSkills, call.nowIso)
        /\ DOMAIN ret = {"mode", "localSkills", "remoteSkills", "uploadPayload"}

\* A list with no two records of the same (source, name), in ascending order
\* by source, then by name.
IsCanonicalList(skills) ==
    \A i, j \in 1..Len(skills) :
        i < j =>
            /\ skills[i] # skills[j]
            /\ localeCompare(skills[i].source, skills[j].source) <= 0
            /\ skills[i].source = skills[j].source =>
                   localeCompare(skills[i].name, skills[j].name) <= 0

\* C8: every list returned by normalizeSkills and uniqueSortedSkills, and so
\* every list of skills in a plan, has no two records with the same (source,
\* name) and is in ascending order by source, then by name.
C8_CanonicalLists ==
    /\ (IsPlanOf("normalizeSkills") \/ IsPlanOf("uniqueSortedSkills")) =>
           IsCanonicalList(ret)
    /\ call.fn \in {"buildMergePlan", "buildAutoPlan", "buildPullPlan", "buildPushPlan"} =>
           /\ IsCanonicalList(ret.localSkills)
           /\ IsCanonicalList(ret.remoteSkills)
           /\ "installCandidates" \in DOMAIN ret => IsCanonicalList(ret.installCandidates)
           /\ "removeCandidates" \in DOMAIN ret => IsCanonicalList(ret.removeCandidates)
           /\ ("uploadPayload" \in DOMAIN ret /\ ret.uploadPayload.t = "object") =>
                  IsCanonicalList(ret.uploadPayload.skills)

\* C9: uniqueSortedSkills drops a record only when an earlier record has the
\* same source and the same name: the (source, name) pairs of its output are
\* those of its input.
C9_UniqueKeepsEveryRecord ==
    IsPlanOf("uniqueSortedSkills") => SetOf(ret) = SetOf(call.skills)

\* C10: areSameSkills(a, b) is true exactly when a and b hold the same set of
\* (source, name) records, whatever the order and the repetitions.
C10_AreSameSkillsIsSetEquality ==
    IsPlanOf("areSameSkills") => (ret = (SetOf(call.left) = SetOf(call.right)))

(***************************************************************************)
(* normalizeSkills on the arrays a parsed payload or lock file can hold:    *)
(* legacy names, records without a source, with a null or an empty source, *)
(* with colliding keys or canonically equivalent sources, without a name,  *)
(* null entries and names that are diagnostic lines of the skills command. *)
(***************************************************************************)
\* "xTry listing global skills"
DiagnosticName ==
    <<"x", "T", "r", "y", " ", "l", "i", "s", "t", "i", "n", "g", " ", "g",
      "l", "o", "b", "a", "l", " ", "s", "k", "i", "l", "l", "s">>

NormalizeEntries ==
    { JsString(NameN),
      JsObject(JsString(NameN), JsString(DEFAULT_SKILL_SOURCE_REPO)),
      JsObject(JsString(NameN), JsUndefined),
      JsObject(JsString(NameN), JsNull),
      JsObject(JsString(NameN), JsString(<<>>)),
      JsObject(JsString(NameN), JsString(SourceKx)),
      JsObject(JsString(NameXN), JsString(SourceK)),
      JsObject(JsString(NameN), JsString(SourceK)),
      JsObject(JsString(NameN), JsString(SourceKelvin)),
      JsObject(JsString(<<>>), JsString(SourceK)),
      JsObject(JsUndefined, JsString(SourceK)),
      JsNull,
      JsString(DiagnosticName),
      JsObject(JsString(DiagnosticName), JsString(SourceK)) }

NormalizeArrays == SeqsUpTo(NormalizeEntries, MaxLen)

InitNormalize ==
    /\ localPayloadSkills \in NormalizeArrays
    /\ remotePayloadSkills = <<>>
    /\ call = NoCall
    /\ ret = JsUndefined
    /\ NoSync

\* A SkillInfo[] as the array of objects it is.
AsJsObjects(skills) ==
    [i \in 1..Len(skills) |->
        JsObject(JsString(skills[i].name), JsString(skills[i].source))]

\* normalizeSkills called on what normalizeSkills returned.
CallNormalizeSkillsAgain ==
    /\ call.fn = "normalizeSkills"
    /\ call' = [fn |-> "normalizeSkillsAgain", skills |-> AsJsObjects(ret),
                first |-> ret]
    /\ ret' = normalizeSkills(AsJsObjects(ret))
    /\ UNCHANGED <<localPayloadSkills, remotePayloadSkills>>
    /\ UNCHANGED syncVars

NextNormalize ==
    \/ CallNormalizeSkills
    \/ CallNormalizeSkillsAgain

SpecNormalize == InitNormalize /\ [][NextNormalize]_vars

\* C11: normalizeSkills is idempotent: normalizing what normalizeSkills
\* returned gives the same list, element for element.
C11_NormalizeIdempotent ==
    IsPlanOf("normalizeSkillsAgain") => ret = call.first

\* A second normalisation of a list of two records or more, one of them a
\* legacy name in the first input.
C11_Witness ==
    /\ IsPlanOf("normalizeSkillsAgain")
    /\ Len(ret) >= 2
    /\ \E i \in 1..Len(localPayloadSkills) : localPayloadSkills[i].t = "string"


\* A source that is absent or falsy: undefined, null or the empty string.
IsFalsySource(source) ==
    Nullish(source) \/ (source.t = "string" /\ source.s = <<>>)

\* The name of an input entry after coercion to a string.
EntryName(entry) ==
    IF entry.t = "string"
    THEN entry.s
    ELSE IF Nullish(OptField(entry, "name")) THEN <<>> ELSE entry.name.s

\* The source the entry is to have: the default source for a legacy name and
\* for a record whose source is absent or falsy, its own source otherwise.
EntrySource(entry) ==
    IF entry.t = "string" \/ IsFalsySource(OptField(entry, "source"))
    THEN DEFAULT_SKILL_SOURCE_REPO
    ELSE entry.source.s

\* The input with every legacy name written as a record with the default
\* source.
LegacyAsRecords(skills) ==
    [i \in 1..Len(skills) |->
        IF skills[i].t = "string"
        THEN JsObject(skills[i], JsString(DEFAULT_SKILL_SOURCE_REPO))
        ELSE skills[i]]

\* C12: every record returned by normalizeSkills comes from an input entry of
\* that name and has the default source if that entry is a legacy name or a
\* record whose source is undefined, null or the empty string, and the
\* entry's own source otherwise; and the input normalizes to the same list
\* when its legacy names are written as records with the default source.
C12_DefaultSource ==
    IsPlanOf("normalizeSkills") =>
        /\ \A r \in SetOf(ret) :
               \E i \in 1..Len(call.skills) :
                   /\ EntryName(call.skills[i]) = r.name
                   /\ EntrySource(call.skills[i]) = r.source
        /\ normalizeSkills(LegacyAsRecords(call.skills)) = ret

\* A name that normalizeSkills keeps: not empty, and without any of the four
\* diagnostic substrings.
IsSkillName(name) ==
    /\ name # <<>>
    /\ \A bad \in BANNED_SKILL_NAME_SUBSTRINGS : ~StringIncludes(name, bad)

\* C13: normalizeSkills returns a list for every input array; no record of
\* the list has a name that is empty or holds a diagnostic substring; and
\* every input entry with a non-empty, non-diagnostic name has its record in
\* the list.
C13_MalformedEntriesFiltered ==
    IsPlanOf("normalizeSkills") =>
        /\ ret \in Seq(SetOf(ret))
        /\ \A r \in SetOf(ret) : IsSkillName(r.name)
        /\ \A i \in 1..Len(call.skills) :
               IsSkillName(EntryName(call.skills[i])) =>
                   normalizeEntry(call.skills[i]) \in SetOf(ret)


(***************************************************************************)
(* isValidSource (src/service/skillsService.ts, held in                    *)
(* src/unnamed/part_006) and parseStrategy (the combined sync command,     *)
(* held in src/unnamed/part_005).                                          *)
(***************************************************************************)
\* Longest source string given to isValidSource.
MaxSourceLen == 5

Digits == <<"0", "1", "2", "3", "4", "5", "6", "7", "8", "9">>

\* The character class [A-Za-z0-9_.-]
InSourceClass(c) ==
    \/ \E i \in 1..Len(UpperCase) : UpperCase[i] = c
    \/ \E i \in 1..Len(LowerCase) : LowerCase[i] = c
    \/ \E i \in 1..Len(Digits) : Digits[i] = c
    \/ c \in {"_", ".", "-"}

\* [A-Za-z0-9_.-]+ matched from index i as far as it goes: the index after
\* the last character of the run.  No character of the class is a slash, so
\* no shorter match can make the rest of the pattern succeed.
RECURSIVE classRunEnd(_, _)
classRunEnd(s, i) ==
    IF i <= Len(s) /\ InSourceClass(s[i])
    THEN classRunEnd(s, i + 1)
    ELSE i

\* The second segment without the closing $ of the pattern.
segmentUnanchored(s, start, end) == end > start

\* [A-Za-z0-9_.-]+$ from start, the run ending before index end.  There is no
\* m flag: $ matches at the end of the input only.
segmentThenEnd(s, start, end) == end > start /\ end = Len(s) + 1

\* ^[A-Za-z0-9_.-]+\/ with the first run ending before index end.
segmentThenSlash(s, end) ==
    /\ end > 1
    /\ end <= Len(s)
    /\ s[end] = "/"
    /\ segmentThenEnd(s, end + 1, classRunEnd(s, end + 1))

\* SOURCE_PATTERN.test(source)
SOURCE_PATTERN(source) == segmentThenSlash(source, classRunEnd(source, 1))

isValidSource(source) == SOURCE_PATTERN(source)

\* The combined command's --strategy option: absent, or a string.  An error
\* message is the sequence of the parts of its template literal.
StrategyError(input) ==
    [t |-> "throw",
     message |-> <<"Invalid strategy \"", input, "\". Use one of: union, latest.">>]

\* A parseStrategy that falls back to "union" for an unknown strategy.
parseStrategyLenient(input) ==
    IF Nullish(input) \/ input.s = ""
    THEN JsString("union")
    ELSE IF input.s = "latest"
         THEN input
         ELSE JsString("union")

parseStrategy(input) ==
    IF Nullish(input) \/ input.s = ""
    THEN JsString("union")
    ELSE IF input.s = "union" \/ input.s = "latest"
         THEN input
         ELSE StrategyError(input.s)

\* The characters sources are made of here: a letter of each case, a digit,
\* the three punctuation marks of the class, the slash, a line feed and a
\* letter outside ASCII.
SourceAlphabet == {"a", "Z", "0", "_", ".", "-", "/", "\n", "U+212A"}

\* The strings of at most MaxSourceLen such characters.
Sources == UNION { [1..n -> SourceAlphabet] : n \in 0..MaxSourceLen }

StrategyInputs ==
    { JsUndefined, JsString(""), JsString("union"), JsString("latest"),
      JsString("Union"), JsString("latest "), JsString("merge"),
      JsString("undefined") }

InitValidate ==
    /\ localPayloadSkills = <<>>
    /\ remotePayloadSkills = <<>>
    /\ call = NoCall
    /\ ret = JsUndefined
    /\ NoSync

CallIsValidSource ==
    /\ call = NoCall
    /\ \E source \in Sources :
           /\ call' = [fn |-> "isValidSource", source |-> source]
           /\ ret' = isValidSource(source)
    /\ UNCHANGED <<localPayloadSkills, remotePayloadSkills>>
    /\ UNCHANGED syncVars

CallParseStrategy ==
    /\ call = NoCall
    /\ \E input \in StrategyInputs :
           /\ call' = [fn |-> "parseStrategy", input |-> input]
           /\ ret' = parseStrategy(input)
    /\ UNCHANGED <<localPayloadSkills, remotePayloadSkills>>
    /\ UNCHANGED syncVars

NextValidate ==
    \/ CallIsValidSource
    \/ CallParseStrategy

SpecValidate == InitValidate /\ [][NextValidate]_vars


\* A letter (A to Z, a to z), a digit, an underscore, a period or a hyphen.
IsSegmentChar(c) ==
    \/ c \in SetOf(UpperCase) \cup SetOf(LowerCase) \cup SetOf(Digits)
    \/ c \in {"_", ".", "-"}

\* Two non-empty segments of such characters around the one slash of s.
IsOwnerSlashRepo(s) ==
    \E k \in 2..(Len(s) - 1) :
        /\ s[k] = "/"
        /\ \A i \in (1..Len(s)) \ {k} : IsSegmentChar(s[i])

SlashCount(s) == Cardinality({i \in 1..Len(s) : s[i] = "/"})

\* C14: isValidSource(s) is true exactly when s is two non-empty segments of
\* letters, digits, underscores, periods and hyphens separated by exactly one
\* slash; the empty string, a string without a slash and a string with more
\* than one slash are invalid.
C14_IsValidSource ==
    IsPlanOf("isValidSource") =>
        /\ ret = IsOwnerSlashRepo(call.source)
        /\ (call.source = <<>> \/ SlashCount(call.source) # 1) => ret = FALSE

\* isValidSource has rejected two well-formed segments followed by a second
\* slash and a third segment.
C14_Witness ==
    /\ IsPlanOf("isValidSource")
    /\ call.source = <<"a", "/", "Z", "/", "0">>
    /\ ret = FALSE

\* C15 as stated: parseStrategy returns "union" for undefined, returns
\* "union" and "latest" unchanged, and raises the error naming the value for
\* every other string, the empty string included.
C15_ParseStrategy ==
    IsPlanOf("parseStrategy") =>
        IF call.input = JsUndefined
        THEN ret = JsString("union")
        ELSE IF call.input.s \in {"union", "latest"}
             THEN ret = call.input
             ELSE ret.t = "throw" /\ call.input.s \in SetOf(ret.message)

\* C15, amended: parseStrategy returns "union" for undefined and for the
\* empty string, returns "union" and "latest" unchanged, and raises the error
\* naming the value for every other string.
C15_ParseStrategyNonEmpty ==
    IsPlanOf("parseStrategy") =>
        IF call.input = JsUndefined \/ call.input = JsString("")
        THEN ret = JsString("union")
        ELSE IF call.input.s \in {"union", "latest"}
             THEN ret = call.input
             ELSE ret.t = "throw" /\ call.input.s \in SetOf(ret.message)

\* parseStrategy has raised for a string that differs from a strategy by
\* its case only.
C15_Witness ==
    /\ IsPlanOf("parseStrategy")
    /\ call.input = JsString("Union")
    /\ ret.t = "throw"


(***************************************************************************)
(* The sync commands (src/commands/sync.ts) with the services they call:   *)
(* the config store, the gist holding skillhub.json (gistService.ts, held  *)
(* in src/unnamed/part_000) and the skills command (skillsService.ts, held *)
(* in src/unnamed/part_006).  A run is one step: the stores before it and  *)
(* the options and faults of the run give the stores after it.             *)
(***************************************************************************)
\* A config value or an option that is a non-empty string.
Truthy(v) == v.t = "string" /\ v.s # ""

\* new Date().toISOString() at the time of the run
NowIso == "1970-01-01T00:00:00.003Z"

\* The id GitHub gives to a gist created by the run.
NewGistId == "g2"

Gist(id, content) == [t |-> "gist", id |-> id, content |-> content]

\* A skillhub.json without content, or with content that is not the JSON of
\* an object with a skills array.
Unreadable == [t |-> "unreadable"]

\* JSON.parse(JSON.stringify(payload)): the SkillInfo records of an uploaded
\* payload are read back as objects.
StoredPayload(payload) == Payload(AsJsObjects(payload.skills), payload.updatedAt)

\* parsed.skills.map(...) of getSkillhubPayload
legacyToRecords(skills) ==
    [i \in 1..Len(skills) |->
        IF skills[i].t = "string"
        THEN JsObject(skills[i], JsString(DEFAULT_SKILL_SOURCE_REPO))
        ELSE skills[i]]

\* getSkillhubPayload on the content of the file, the gist being there.
getSkillhubPayload(content) ==
    IF content.t = "object"
    THEN Payload(legacyToRecords(content.skills), content.updatedAt)
    ELSE JsNull

\* safeGetPayload: null when gists.get fails, by a fault or because no gist
\* has that id.
safeGetPayload(remoteGist, gistId, getFails) ==
    IF getFails \/ remoteGist.t = "none" \/ remoteGist.id # gistId
    THEN JsNull
    ELSE getSkillhubPayload(remoteGist.content)

\* What resolveRemoteState returns, with the config store as it leaves it and
\* the writes it made; threw is set when findSkillhubGist raised.
RemoteState(threw, gistId, remotePayload, store, effects) ==
    [threw |-> threw,
     gistId |-> gistId,
     gistFound |-> Truthy(gistId),
     remotePayload |-> remotePayload,
     config |-> store,
     effects |-> effects]

\* resolveRemoteState from `if (!gistId)` on
findAndFetch(store, remoteGist, fault) ==
    IF fault = "find"
    THEN RemoteState(TRUE, JsUndefined, JsNull, store, {})
    ELSE IF remoteGist.t = "none"
         THEN RemoteState(FALSE, JsUndefined, JsNull, store, {})
         ELSE RemoteState(FALSE, JsString(remoteGist.id),
                          safeGetPayload(remoteGist, remoteGist.id,
                                         fault \in {"getFound", "getBoth"}),
                          [store EXCEPT !.gistId = JsString(remoteGist.id)],
                          {"setGistId"})

\* resolveRemoteState once the payload of the stored id is fetched
resolveAfterStored(store, remoteGist, fault, remotePayload) ==
    IF remotePayload.t = "object"
    THEN RemoteState(FALSE, store.gistId, remotePayload, store, {})
    ELSE findAndFetch(store, remoteGist, fault)

resolveRemoteState(store, remoteGist, fault) ==
    resolveAfterStored(store, remoteGist, fault,
                       IF Truthy(store.gistId)
                       THEN safeGetPayload(remoteGist, store.gistId.s,
                                           fault \in {"getStored", "getBoth"})
                       ELSE JsNull)

\* payload ?? { skills: [], updatedAt: "" }
asPlanPayload(payload) ==
    IF Nullish(payload) THEN Payload(<<>>, "") ELSE payload

\* The installed skills in the order `skills list -g` prints them.
RECURSIVE listOf(_)
listOf(skills) ==
    IF skills = {}
    THEN <<>>
    ELSE LET first == CHOOSE skill \in skills : TRUE
         IN  <<first>> \o listOf(skills \ {first})

\* getLocalSkills: the installed skills, each with the source its lock entry
\* gives, normalized.
getLocalSkills(skills) == normalizeSkills(AsJsObjects(listOf(skills)))

\* InstallFailure: { skill, reason }
InstallFailure(skill, reason) == [skill |-> skill, reason |-> reason]

\* `Invalid source "${skill.source}". Expected owner/repo format.`
InvalidSourceReason(source) ==
    <<"Invalid source \"">> \o source \o <<"\". Expected owner/repo format.">>

\* error.message of a `skills` command that failed
CommandFailedReason == <<"Command failed">>

\* The loop of installSkills: `skills add <source> --skill <name> --global`
\* puts the skill in the global directory of that name, replacing what is
\* there; the command fails for the names in failingNames.  commands lists
\* the skills for which the command ran.
RECURSIVE installLoop(_, _, _, _)
installLoop(skills, i, failingNames, acc) ==
    IF i > Len(skills)
    THEN acc
    ELSE installLoop(skills, i + 1, failingNames,
             IF ~isValidSource(skills[i].source)
             THEN [acc EXCEPT
                      !.failed = Append(@, InstallFailure(skills[i],
                                     InvalidSourceReason(skills[i].source)))]
             ELSE IF skills[i].name \in failingNames
                  THEN [acc EXCEPT
                           !.commands = Append(@, skills[i]),
                           !.failed = Append(@, InstallFailure(skills[i],
                                                    CommandFailedReason))]
                  ELSE [acc EXCEPT
                           !.commands = Append(@, skills[i]),
                           !.succeeded = Append(@, skills[i]),
                           !.installed = {s \in @ : s.name # skills[i].name}
                                             \cup {skills[i]}])

installSkills(skills, local, failingNames) ==
    installLoop(skills, 1, failingNames,
                [succeeded |-> <<>>, failed |-> <<>>, installed |-> local,
                 commands |-> <<>>])

\* The loop of removeSkills: `skills remove --skill <name> --global` removes
\* the skill of that name, whatever its source.
RECURSIVE removeLoop(_, _, _, _, _)
removeLoop(skills, i, failingNames, seen, acc) ==
    IF i > Len(skills)
    THEN acc
    ELSE IF skillKey(skills[i]) \in seen
         THEN removeLoop(skills, i + 1, failingNames, seen, acc)
         ELSE removeLoop(skills, i + 1, failingNames,
                  seen \cup {skillKey(skills[i])},
                  IF skills[i].name \in failingNames
                  THEN [acc EXCEPT
                           !.failed = Append(@, InstallFailure(skills[i],
                                                    CommandFailedReason))]
                  ELSE [acc EXCEPT
                           !.succeeded = Append(@, skills[i]),
                           !.installed = {s \in @ : s.name # skills[i].name}])

removeSkills(skills, local, failingNames) ==
    removeLoop(skills, 1, failingNames, {},
               [succeeded |-> <<>>, failed |-> <<>>, installed |-> local])

\* candidates.filter((skill) => !isValidSource(skill.source)).map(...) and
\* the filter's complement
invalidInstallCandidates(candidates) ==
    LET invalid(skill) == ~isValidSource(skill.source)
        rejected == SelectSeq(candidates, invalid)
    IN  [i \in 1..Len(rejected) |->
            InstallFailure(rejected[i], InvalidSourceReason(rejected[i].source))]

\* A split that hands every candidate to installSkills.
allInstallCandidates(candidates) == candidates

validInstallCandidates(candidates) ==
    LET valid(skill) == isValidSource(skill.source)
    IN  SelectSeq(candidates, valid)


\* The errors the sync commands raise themselves, each by the first sentence
\* of its message; the mode and the count in finalizeWithFailures' message
\* are left out.
PullCancelledError == "Sync pull cancelled."
GistNotFoundError == "Remote SkillHub Gist not found."
PayloadInvalidError == "Remote SkillHub payload is missing or invalid."
CompletedWithFailuresError == "Sync completed with failed operation(s)."

\* What a run leaves: the three stores, how the run ended ("returned" or
\* "threw") and with which error ("threw" itself stands for an error that a
\* service call or ensureToken raised), the writes and commands it made,
\* summary.failed, the install candidates with an invalid source among them,
\* whether the removal prompt was shown and the skills for which `skills add`
\* ran.
RunOutcome(store, remoteGist, local, outcome, effects, failed, invalid) ==
    [config |-> store,
     gist |-> remoteGist,
     installed |-> local,
     outcome |-> IF outcome = "returned" THEN "returned" ELSE "threw",
     error |-> IF outcome = "returned" THEN "" ELSE outcome,
     effects |-> effects,
     failed |-> failed,
     invalid |-> invalid,
     prompted |-> FALSE,
     commands |-> <<>>]

\* The outcome of a run whose installSkills call ran these commands.
withCommands(outcome, commands) == [outcome EXCEPT !.commands = commands]

\* The outcome of a run that showed the removal prompt, or not.
withPrompt(outcome, prompted) == [outcome EXCEPT !.prompted = prompted]

\* The arguments of a plan builder.
PlanParams(localSkills, remotePayload, lastSyncAt) ==
    [localPayload |-> Payload(AsJsObjects(localSkills), NowIso),
     remotePayload |-> remotePayload,
     lastSyncAt |-> lastSyncAt,
     nowIso |-> NowIso]

\* createSkillhubGist(octokit, payload): the gist the user has afterwards.
createSkillhubGist(payload) == Gist(NewGistId, StoredPayload(payload))

\* An update that keeps the skills the gist holds and adds the payload's to
\* them.
updateSkillhubGistMerging(remoteGist, gistId, payload) ==
    IF remoteGist.t = "gist" /\ remoteGist.id = gistId
    THEN Gist(gistId,
              IF remoteGist.content.t = "object"
              THEN StoredPayload(Payload(
                       uniqueSortedSkills(
                           normalizeSkills(remoteGist.content.skills)
                               \o payload.skills),
                       payload.updatedAt))
              ELSE StoredPayload(payload))
    ELSE remoteGist

\* updateSkillhubGist(octokit, gistId, payload)
updateSkillhubGist(remoteGist, gistId, payload) ==
    IF remoteGist.t = "gist" /\ remoteGist.id = gistId
    THEN Gist(gistId, StoredPayload(payload))
    ELSE remoteGist

\* The `if (!gistFound)` branch of runSyncMerge, runSyncAuto and runSyncPush.
createWhenNotFound(store, remoteGist, local, in, localSkills) ==
    IF in.dryRun
    THEN RunOutcome(store, remoteGist, local, "returned", {}, <<>>, <<>>)
    ELSE IF in.fault = "write"
         THEN RunOutcome(store, remoteGist, local, "threw", {}, <<>>, <<>>)
         ELSE RunOutcome([store EXCEPT !.gistId = JsString(NewGistId),
                                       !.lastSyncAt = JsString(NowIso)],
                         createSkillhubGist(Payload(localSkills, NowIso)),
                         local, "returned",
                         {"createSkillhubGist", "setGistId", "setLastSyncAt"},
                         <<>>, <<>>)

\* An end of run that writes lastSyncAt whatever failed.
finishRunAlwaysSynced(store, remoteGist, local, in, effects, failed, invalid) ==
    RunOutcome([store EXCEPT !.lastSyncAt = JsString(NowIso)],
               remoteGist, local,
               IF failed # <<>> /\ ~in.json
               THEN CompletedWithFailuresError ELSE "returned",
               effects \cup {"setLastSyncAt"},
               failed, invalid)

\* The end of runSyncMerge, runSyncAuto and runSyncPull: setLastSyncAt when
\* nothing failed, then finalizeWithFailures.
finishRun(store, remoteGist, local, in, effects, failed, invalid) ==
    RunOutcome(IF failed = <<>>
               THEN [store EXCEPT !.lastSyncAt = JsString(NowIso)]
               ELSE store,
               remoteGist, local,
               IF failed # <<>> /\ ~in.json
               THEN CompletedWithFailuresError ELSE "returned",
               IF failed = <<>> THEN effects \cup {"setLastSyncAt"} ELSE effects,
               failed, invalid)

\* The effect of an installSkills or removeSkills call that runs a command.
commandEffect(name, skills) == IF skills = <<>> THEN {} ELSE {name}

\* runSyncMerge and runSyncAuto after installSkills: the upload of the plan,
\* then the end of the run.
uploadAfterInstall(remote, remoteGist, in, plan, valid, invalid, installResult) ==
    withCommands(
        IF plan.uploadPayload.t = "object"
        THEN IF in.fault = "write"
             THEN RunOutcome(remote.config, remoteGist, installResult.installed,
                             "threw",
                             remote.effects
                                 \cup commandEffect("installSkills", valid),
                             invalid \o installResult.failed, invalid)
             ELSE finishRun(remote.config,
                            updateSkillhubGist(remoteGist, remote.gistId.s,
                                               plan.uploadPayload),
                            installResult.installed, in,
                            remote.effects
                                \cup commandEffect("installSkills", valid)
                                \cup {"updateSkillhubGist"},
                            invalid \o installResult.failed, invalid)
        ELSE finishRun(remote.config, remoteGist, installResult.installed, in,
                       remote.effects \cup commandEffect("installSkills", valid),
                       invalid \o installResult.failed, invalid),
        installResult.commands)

\* runSyncMerge and runSyncAuto once the plan is split by splitInstallCandidates
installAndUpload(remote, remoteGist, local, in, plan, valid, invalid) ==
    IF in.dryRun
    THEN RunOutcome(remote.config, remoteGist, local, "returned",
                    remote.effects, invalid, invalid)
    ELSE uploadAfterInstall(remote, remoteGist, in, plan, valid, invalid,
                            installSkills(valid, local, in.failingNames))

\* runSyncMerge and runSyncAuto from the plan on
applyPlan(remote, remoteGist, local, in, plan) ==
    installAndUpload(remote, remoteGist, local, in, plan,
                     validInstallCandidates(plan.installCandidates),
                     invalidInstallCandidates(plan.installCandidates))

\* runSyncMerge once the local skills are listed and the remote is resolved
runSyncMergeResolved(remoteGist, local, in, localSkills, remote) ==
    IF remote.threw
    THEN RunOutcome(remote.config, remoteGist, local, "threw", remote.effects,
                    <<>>, <<>>)
    ELSE IF ~remote.gistFound
         THEN createWhenNotFound(remote.config, remoteGist, local, in, localSkills)
         ELSE applyPlan(remote, remoteGist, local, in,
                        buildMergePlan(PlanParams(localSkills,
                                                  asPlanPayload(remote.remotePayload),
                                                  JsUndefined)))

\* ensureToken or getLocalSkills raises: the run ends before any write.
throwsAtStart(store, in) == ~Truthy(store.githubToken) \/ in.fault = "list"

runSyncMerge(store, remoteGist, local, in) ==
    IF throwsAtStart(store, in)
    THEN RunOutcome(store, remoteGist, local, "threw", {}, <<>>, <<>>)
    ELSE runSyncMergeResolved(remoteGist, local, in, getLocalSkills(local),
                       resolveRemoteState(store, remoteGist, in.fault))

runSyncAutoResolved(remoteGist, local, in, localSkills, remote) ==
    IF remote.threw
    THEN RunOutcome(remote.config, remoteGist, local, "threw", remote.effects,
                    <<>>, <<>>)
    ELSE IF ~remote.gistFound
         THEN createWhenNotFound(remote.config, remoteGist, local, in, localSkills)
         ELSE applyPlan(remote, remoteGist, local, in,
                        buildAutoPlan(PlanParams(localSkills,
                                                 asPlanPayload(remote.remotePayload),
                                                 remote.config.lastSyncAt)))

runSyncAuto(store, remoteGist, local, in) ==
    IF throwsAtStart(store, in)
    THEN RunOutcome(store, remoteGist, local, "threw", {}, <<>>, <<>>)
    ELSE runSyncAutoResolved(remoteGist, local, in, getLocalSkills(local),
                             resolveRemoteState(store, remoteGist, in.fault))


\* A runSyncPush that installs the skills of the remote payload before it
\* uploads.
pushPlannedInstalling(remote, remoteGist, local, in, plan) ==
    RunOutcome(remote.config, remoteGist,
               installSkills(plan.remoteSkills, local, {}).installed,
               "returned",
               remote.effects \cup commandEffect("installSkills", plan.remoteSkills),
               <<>>, <<>>)

\* runSyncPush once the plan is built
pushPlanned(remote, remoteGist, local, in, plan) ==
    IF in.dryRun
    THEN RunOutcome(remote.config, remoteGist, local, "returned",
                    remote.effects, <<>>, <<>>)
    ELSE IF plan.uploadPayload.t = "object"
         THEN IF in.fault = "write"
              THEN RunOutcome(remote.config, remoteGist, local, "threw",
                              remote.effects, <<>>, <<>>)
              ELSE RunOutcome([remote.config EXCEPT !.lastSyncAt = JsString(NowIso)],
                              updateSkillhubGist(remoteGist, remote.gistId.s,
                                                 plan.uploadPayload),
                              local, "returned",
                              remote.effects
                                  \cup {"updateSkillhubGist", "setLastSyncAt"},
                              <<>>, <<>>)
         ELSE RunOutcome([remote.config EXCEPT !.lastSyncAt = JsString(NowIso)],
                         remoteGist, local, "returned",
                         remote.effects \cup {"setLastSyncAt"}, <<>>, <<>>)

runSyncPushResolved(remoteGist, local, in, localSkills, remote) ==
    IF remote.threw
    THEN RunOutcome(remote.config, remoteGist, local, "threw", remote.effects,
                    <<>>, <<>>)
    ELSE IF ~remote.gistFound
         THEN createWhenNotFound(remote.config, remoteGist, local, in, localSkills)
         ELSE pushPlanned(remote, remoteGist, local, in,
                          buildPushPlan(PlanParams(localSkills,
                                                   asPlanPayload(remote.remotePayload),
                                                   JsUndefined)))

runSyncPush(store, remoteGist, local, in) ==
    IF throwsAtStart(store, in)
    THEN RunOutcome(store, remoteGist, local, "threw", {}, <<>>, <<>>)
    ELSE runSyncPushResolved(remoteGist, local, in, getLocalSkills(local),
                             resolveRemoteState(store, remoteGist, in.fault))

\* A runSyncPull that ends by uploading the local skills to the gist.
pullFinishedUploading(remote, remoteGist, in, plan, valid, invalid, installResult, removeResult) ==
    withCommands(
        finishRun(remote.config,
                  updateSkillhubGist(remoteGist, remote.gistId.s,
                                     Payload(plan.localSkills, NowIso)),
                  removeResult.installed, in,
                  remote.effects \cup commandEffect("installSkills", valid)
                      \cup commandEffect("removeSkills", plan.removeCandidates)
                      \cup {"updateSkillhubGist"},
                  invalid \o installResult.failed \o removeResult.failed,
                  invalid),
        installResult.commands)

\* runSyncPull after installSkills and removeSkills: the summary has
\* uploaded: 0 and no call writes the gist.
pullFinished(remote, remoteGist, in, plan, valid, invalid, installResult, removeResult) ==
    withCommands(
        finishRun(remote.config, remoteGist, removeResult.installed, in,
                  remote.effects \cup commandEffect("installSkills", valid)
                      \cup commandEffect("removeSkills", plan.removeCandidates),
                  invalid \o installResult.failed \o removeResult.failed,
                  invalid),
        installResult.commands)

\* runSyncPull after installSkills: removeSkills runs on what the installs
\* left.
pullInstalled(remote, remoteGist, in, plan, valid, invalid, installResult) ==
    pullFinished(remote, remoteGist, in, plan, valid, invalid, installResult,
                 removeSkills(plan.removeCandidates, installResult.installed,
                              in.failingNames))

\* confirmPullRemovalsIfNeeded goes past its early return and shows the
\* prompt: there are removals and no --yes.
pullPrompted(removeCandidates, in) == ~(removeCandidates = <<>> \/ in.yes)

\* A confirmPullRemovalsIfNeeded that goes on whatever the user answers.
pullCancelledNever(removeCandidates, in) == FALSE

\* confirmPullRemovalsIfNeeded raises: the prompt is shown and the user
\* declines.
pullCancelled(removeCandidates, in) ==
    pullPrompted(removeCandidates, in) /\ ~in.confirm

\* runSyncPull once the plan is split by splitInstallCandidates
pullPlanned(remote, remoteGist, local, in, plan, valid, invalid) ==
    IF in.dryRun
    THEN RunOutcome(remote.config, remoteGist, local, "returned",
                    remote.effects, invalid, invalid)
    ELSE withPrompt(
             IF pullCancelled(plan.removeCandidates, in)
             THEN RunOutcome(remote.config, remoteGist, local,
                             PullCancelledError, remote.effects, <<>>, <<>>)
             ELSE pullInstalled(remote, remoteGist, in, plan, valid, invalid,
                                installSkills(valid, local, in.failingNames)),
             pullPrompted(plan.removeCandidates, in))

pullSplit(remote, remoteGist, local, in, plan) ==
    pullPlanned(remote, remoteGist, local, in, plan,
                validInstallCandidates(plan.installCandidates),
                invalidInstallCandidates(plan.installCandidates))

\* A runSyncPull that reads a remote it could not find or read as an empty
\* payload.
runSyncPullResolvedLenient(remoteGist, local, in, localSkills, remote) ==
    IF remote.threw
    THEN RunOutcome(remote.config, remoteGist, local, "threw", remote.effects,
                    <<>>, <<>>)
    ELSE pullSplit(remote, remoteGist, local, in,
                   buildPullPlan(PlanParams(localSkills,
                                            asPlanPayload(remote.remotePayload),
                                            JsUndefined)))

runSyncPullResolved(remoteGist, local, in, localSkills, remote) ==
    IF remote.threw \/ ~remote.gistFound \/ Nullish(remote.remotePayload)
    THEN RunOutcome(remote.config, remoteGist, local,
                    IF remote.threw THEN "threw"
                    ELSE IF ~remote.gistFound THEN GistNotFoundError
                    ELSE PayloadInvalidError,
                    remote.effects, <<>>, <<>>)
    ELSE pullSplit(remote, remoteGist, local, in,
                   buildPullPlan(PlanParams(localSkills, remote.remotePayload,
                                            JsUndefined)))

runSyncPull(store, remoteGist, local, in) ==
    IF throwsAtStart(store, in)
    THEN RunOutcome(store, remoteGist, local, "threw", {}, <<>>, <<>>)
    ELSE runSyncPullResolved(remoteGist, local, in, getLocalSkills(local),
                             resolveRemoteState(store, remoteGist, in.fault))


(***************************************************************************)
(* The state machine of the sync commands: from every state of the config  *)
(* store, the gist and the installed skills, one run of one command.       *)
(***************************************************************************)
SkillA == SkillInfo(<<"a">>, <<"o", "/", "r">>)
\* The skill of the same name from another source.
SkillA2 == SkillInfo(<<"a">>, <<"p", "/", "r">>)
SkillB == SkillInfo(<<"b">>, <<"o", "/", "r">>)
\* A skill whose source is not owner/repo.
SkillC == SkillInfo(<<"c">>, <<"o", "r">>)

\* The global skills directory holds one skill per name.
Inventories ==
    { skills \in SUBSET {SkillA, SkillA2, SkillB} :
        /\ Cardinality(skills) <= MaxLen
        /\ \A s1, s2 \in skills : s1.name = s2.name => s1 = s2 }

\* The skills arrays the commands write to skillhub.json.
RemoteLists ==
    { uniqueSortedSkills(skills) :
        skills \in SeqsUpTo({SkillA, SkillA2, SkillB, SkillC}, MaxLen) }

\* updatedAt of the remote payload: before and after the stored lastSyncAt.
RemoteUpdatedAts == { "1969-12-31T23:59:59.999Z", "1970-01-01T00:00:00.002Z" }

\* No gist with skillhub.json, one whose file cannot be read, or one with a
\* payload.
Gists ==
    {NoGist, Gist("g1", Unreadable)}
        \cup { Gist("g1", Payload(AsJsObjects(skills), updatedAt)) :
                 skills \in RemoteLists, updatedAt \in RemoteUpdatedAts }

\* Logged out, the store holds nothing; logged in, it holds no gist id, the id
\* of a gist that is gone ("g0") or the id of the gist ("g1"), and the time of
\* the last sync once there was one.
Configs ==
    { [githubToken |-> JsUndefined, gistId |-> JsUndefined,
       lastSyncAt |-> JsUndefined],
      [githubToken |-> JsString("token"), gistId |-> JsUndefined,
       lastSyncAt |-> JsUndefined] }
        \cup { [githubToken |-> JsString("token"), gistId |-> JsString(id),
                lastSyncAt |-> lastSyncAt] :
                 id \in {"g0", "g1"},
                 lastSyncAt \in {JsUndefined, JsString("1970-01-01T00:00:00.001Z")} }

\* What fails during the run: nothing, `skills list`, gists.get on the stored
\* id, on the id found, on both, the listing of the gists, or the create or
\* update of the gist.
Faults == {"none", "list", "getStored", "getFound", "getBoth", "find", "write"}

\* The names for which `skills add` and `skills remove` fail.
FailingNames == SUBSET {<<"a">>, <<"b">>}

\* --dry-run, --json, --yes, the answer to the prompt, and the faults.
RunOptions(yesses, answers) ==
    { [dryRun |-> dryRun, json |-> json, yes |-> yes, confirm |-> confirm,
       fault |-> fault, failingNames |-> failingNames] :
        dryRun \in BOOLEAN, json \in BOOLEAN, yes \in yesses,
        confirm \in answers, fault \in Faults, failingNames \in FailingNames }

InitSync ==
    /\ localPayloadSkills = <<>>
    /\ remotePayloadSkills = <<>>
    /\ call = NoCall
    /\ ret = JsUndefined
    /\ config \in Configs
    /\ gist \in Gists
    /\ installed \in Inventories
    /\ run = NoRun
    /\ retry = NoRetry
    /\ merges = NoMerges

\* The run is made: the stores are as the command leaves them, and the run
\* is kept with the stores it started from.
Complete(mode, in, result) ==
    /\ config' = result.config
    /\ gist' = result.gist
    /\ installed' = result.installed
    /\ run' = [mode |-> mode,
               dryRun |-> in.dryRun,
               fault |-> in.fault,
               yes |-> in.yes,
               confirm |-> in.confirm,
               outcome |-> result.outcome,
               error |-> result.error,
               effects |-> result.effects,
               failed |-> result.failed,
               invalid |-> result.invalid,
               prompted |-> result.prompted,
               commands |-> result.commands,
               before |-> [config |-> config, gist |-> gist,
                           installed |-> installed]]
    /\ UNCHANGED <<localPayloadSkills, remotePayloadSkills, call, ret,
                   retry, merges>>

RunSyncMerge ==
    /\ run = NoRun
    /\ \E in \in RunOptions({FALSE}, {FALSE}) :
           Complete("merge", in, runSyncMerge(config, gist, installed, in))

RunSyncAuto ==
    /\ run = NoRun
    /\ \E in \in RunOptions({FALSE}, {FALSE}) :
           Complete("auto", in, runSyncAuto(config, gist, installed, in))

RunSyncPush ==
    /\ run = NoRun
    /\ \E in \in RunOptions({FALSE}, {FALSE}) :
           Complete("push", in, runSyncPush(config, gist, installed, in))

RunSyncPull ==
    /\ run = NoRun
    /\ \E in \in RunOptions(BOOLEAN, BOOLEAN) :
           Complete("pull", in, runSyncPull(config, gist, installed, in))

NextSync ==
    \/ RunSyncMerge
    \/ RunSyncAuto
    \/ RunSyncPush
    \/ RunSyncPull

SpecSync == InitSync /\ [][NextSync]_vars


\* The run made is a run of that command.
IsRunOf(mode) == run.mode = mode

\* The skills of a gist whose skillhub.json holds a payload.
HasPayload(remoteGist) == remoteGist.t = "gist" /\ remoteGist.content.t = "object"
PayloadSkillsOf(remoteGist) == SetOf(normalizeSkills(remoteGist.content.skills))

\* C16: a run with dryRun set creates no gist, updates no gist, installs and
\* removes no skill and writes nothing to the config store (neither gistId
\* nor lastSyncAt), whatever the stored gist id and the remote are.
C16_DryRunChangesNothing ==
    (run.mode \in {"merge", "auto", "push", "pull"} /\ run.dryRun) =>
        /\ run.effects = {}
        /\ config = run.before.config
        /\ gist = run.before.gist
        /\ installed = run.before.installed

\* C17: after a runSyncPull without dryRun that returned with no failed
\* operation, the installed skills are the skills of the remote payload.
C17_PullMirrorsRemote ==
    (IsRunOf("pull") /\ ~run.dryRun /\ run.outcome = "returned"
        /\ run.failed = <<>>) =>
        installed = PayloadSkillsOf(gist)

\* C18: after a runSyncPush without dryRun that returned, there is a gist,
\* its id is the stored gist id, and the skills of its payload are the
\* installed skills, normalized.
C18_PushMirrorsLocal ==
    (IsRunOf("push") /\ ~run.dryRun /\ run.outcome = "returned") =>
        /\ HasPayload(gist)
        /\ config.gistId = JsString(gist.id)
        /\ PayloadSkillsOf(gist) = SetOf(getLocalSkills(installed))

\* C19: a runSyncMerge without dryRun removes no skill from the remote: the
\* skills of the gist's payload before the run are in the gist's payload
\* after it, however the run went.
C19_MergeKeepsRemoteSkills ==
    (IsRunOf("merge") /\ ~run.dryRun /\ HasPayload(run.before.gist)) =>
        /\ HasPayload(gist)
        /\ PayloadSkillsOf(run.before.gist) \subseteq PayloadSkillsOf(gist)

\* C20: no runSyncPull, with dryRun or without, returning or raising,
\* creates or updates the gist: the gist after the run is the gist before it.
C20_PullLeavesRemote ==
    IsRunOf("pull") => gist = run.before.gist

\* A runSyncPull without dryRun has installed and removed skills and
\* returned.
C20_Witness ==
    /\ IsRunOf("pull")
    /\ ~run.dryRun
    /\ run.outcome = "returned"
    /\ {"installSkills", "removeSkills"} \subseteq run.effects
    /\ installed # run.before.installed
    /\ HasPayload(gist)

(***************************************************************************)
(* C21: no runSyncPush run, dry or not, whatever the remote state and      *)
(* however it ends, installs or removes a local skill: the installed       *)
(* skills after the run are the installed skills before it, and the run    *)
(* calls neither installSkills nor removeSkills.                           *)
(***************************************************************************)
C21_PushLeavesLocal ==
    IsRunOf("push") =>
        /\ installed = run.before.installed
        /\ run.effects \cap {"installSkills", "removeSkills"} = {}

\* A push that replaced a remote payload holding a skill that is not
\* installed.
C21_Witness ==
    /\ IsRunOf("push")
    /\ ~run.dryRun
    /\ "updateSkillhubGist" \in run.effects
    /\ HasPayload(run.before.gist)
    /\ \E skill \in PayloadSkillsOf(run.before.gist) :
           /\ isValidSource(skill.source)
           /\ skill \notin run.before.installed

\* The remote state a run resolved and the pull plan built from it.
ResolvedBy(r) == resolveRemoteState(r.before.config, r.before.gist, r.fault)
ReachedPullPlan(r) ==
    /\ ~throwsAtStart(r.before.config, r)
    /\ ~ResolvedBy(r).threw
    /\ ResolvedBy(r).gistFound
    /\ ~Nullish(ResolvedBy(r).remotePayload)
PullPlanOf(r) ==
    buildPullPlan(PlanParams(getLocalSkills(r.before.installed),
                             ResolvedBy(r).remotePayload, JsUndefined))

(***************************************************************************)
(* C22: a pull that is not a dry run calls removeSkills only if --yes is   *)
(* set or the user confirmed the prompt; the prompt is shown exactly when  *)
(* the plan has a remove candidate and --yes is not set; and when the user *)
(* declines, the run fails with "Sync pull cancelled." having run no       *)
(* install, no removal and no write of lastSyncAt.                          *)
(***************************************************************************)
C22_PullRemovalsConfirmed ==
    (IsRunOf("pull") /\ ~run.dryRun) =>
        /\ "removeSkills" \in run.effects =>
               run.yes \/ (run.prompted /\ run.confirm)
        /\ installed # run.before.installed /\ run.commands = <<>> =>
               run.yes \/ (run.prompted /\ run.confirm)
        /\ run.prompted <=>
               /\ ReachedPullPlan(run)
               /\ PullPlanOf(run).removeCandidates # <<>>
               /\ ~run.yes
        /\ (run.prompted /\ ~run.confirm) =>
               /\ run.outcome = "threw"
               /\ run.error = PullCancelledError
               /\ run.effects \cap {"installSkills", "removeSkills",
                                    "setLastSyncAt"} = {}
               /\ run.commands = <<>>
               /\ installed = run.before.installed
               /\ config.lastSyncAt = run.before.config.lastSyncAt

\* The user declines a pull that had a skill to install and one to remove.
C22_Witness ==
    /\ IsRunOf("pull")
    /\ ~run.dryRun
    /\ run.prompted
    /\ ~run.confirm
    /\ run.error = PullCancelledError
    /\ ReachedPullPlan(run)
    /\ validInstallCandidates(PullPlanOf(run).installCandidates) # <<>>
    /\ PullPlanOf(run).removeCandidates # <<>>

\* The run made no install, no removal, no write of lastSyncAt and no write
\* of the gist.
NothingApplied ==
    /\ run.effects \cap {"installSkills", "removeSkills", "setLastSyncAt",
                         "createSkillhubGist", "updateSkillhubGist"} = {}
    /\ run.commands = <<>>
    /\ installed = run.before.installed
    /\ gist = run.before.gist
    /\ config.lastSyncAt = run.before.config.lastSyncAt

\* The run got as far as the answer of resolveRemoteState.
RemoteResolved(r) ==
    ~throwsAtStart(r.before.config, r) /\ ~ResolvedBy(r).threw

(***************************************************************************)
(* C23: runSyncPull fails with an error when no remote gist can be found   *)
(* and when the gist found has a missing or invalid payload (or one that   *)
(* could not be fetched), with the message of that case, and it fails      *)
(* before any install, removal or write of lastSyncAt and without creating *)
(* or updating a gist: the installed skills are left as they were.         *)
(***************************************************************************)
C23_PullNeedsReadableRemote ==
    IsRunOf("pull") =>
        /\ (run.before.gist = NoGist \/ ~HasPayload(run.before.gist)) =>
               run.outcome = "threw" /\ NothingApplied
        /\ (RemoteResolved(run) /\ ~ResolvedBy(run).gistFound) =>
               /\ run.before.gist = NoGist
               /\ run.outcome = "threw"
               /\ run.error = GistNotFoundError
               /\ NothingApplied
        /\ (RemoteResolved(run) /\ ResolvedBy(run).gistFound
                /\ Nullish(ResolvedBy(run).remotePayload)) =>
               /\ run.outcome = "threw"
               /\ run.error = PayloadInvalidError
               /\ NothingApplied
        /\ (RemoteResolved(run) /\ run.before.gist = NoGist) =>
               run.error = GistNotFoundError
        /\ (RemoteResolved(run) /\ run.before.gist # NoGist
                /\ ~HasPayload(run.before.gist)) =>
               run.error = PayloadInvalidError

\* A confirmed pull, not a dry run, with skills installed, met a gist whose
\* skillhub.json cannot be read.
C23_Witness ==
    /\ IsRunOf("pull")
    /\ ~run.dryRun
    /\ run.yes
    /\ run.before.installed # {}
    /\ run.before.gist # NoGist
    /\ ~HasPayload(run.before.gist)
    /\ run.error = PayloadInvalidError
    /\ installed = run.before.installed

(***************************************************************************)
(* retryAsync (utils/retry.ts): fn is called, its promise settles, the     *)
(* loop sleeps and calls again.                                            *)
(***************************************************************************)
\* Most attempts a caller asks for.
MaxAttempts == 3

DEFAULT_MAX_ATTEMPTS == 3
DEFAULT_INITIAL_DELAY_MS == 300
DEFAULT_FACTOR == 3

TRANSIENT_ERROR_CODES ==
    { "ECONNRESET",
      "ECONNREFUSED",
      "ETIMEDOUT",
      "EAI_AGAIN",
      "ENOTFOUND",
      "ESOCKETTIMEDOUT",
      "ERR_SOCKET_CONNECTION_TIMEOUT",
      "ABORT_ERR",
      "ERR_STREAM_PREMATURE_CLOSE" }

\* The substrings of a message that isTransientError looks for.
TransientMessageParts ==
    { <<"t", "i", "m", "e", "o", "u", "t">>,
      <<"t", "i", "m", "e", "d", " ", "o", "u", "t">>,
      <<"n", "e", "t", "w", "o", "r", "k">>,
      <<"s", "o", "c", "k", "e", "t", " ", "h", "a", "n", "g", " ", "u", "p">>,
      <<"t", "e", "m", "p", "o", "r", "a", "r", "i", "l", "y", " ", "u", "n", "a", "v", "a", "i", "l", "a", "b", "l", "e">>,
      <<"e", "c", "o", "n", "n", "r", "e", "s", "e", "t">> }

\* An error as isTransientError reads it: status, code and message, each
\* possibly undefined; the message is a sequence of characters.
ErrorOf(status, code, message) ==
    [t |-> "error", status |-> status, code |-> code, message |-> message]

\* `${candidate.message ?? ""}`
messageText(candidate) ==
    IF Nullish(candidate.message) THEN <<>> ELSE candidate.message.s

\* `${candidate.message ?? ""}`.toLowerCase()
messageOf(candidate) ==
    [i \in 1..Len(messageText(candidate)) |->
        ToLowerCase(messageText(candidate)[i])]

isTransientError(error) ==
    IF error.status.t = "number"
    THEN error.status.n = 429 \/ error.status.n >= 500
    ELSE IF Truthy(error.code) /\ error.code.s \in TRANSIENT_ERROR_CODES
         THEN TRUE
         ELSE \E part \in TransientMessageParts :
                  StringIncludes(messageOf(error), part)

\* getErrorMessage of an Error (error.message) and of undefined
\* (String(undefined))
getErrorMessage(error) ==
    IF error.t = "error"
    THEN IF Nullish(error.message) THEN <<>> ELSE error.message.s
    ELSE <<"u", "n", "d", "e", "f", "i", "n", "e", "d">>

\* options.shouldRetry ?? isTransientError; the callers' own predicates
\* retry every error ("always") or none ("never").
shouldRetryOf(options, error) ==
    IF Nullish(options.shouldRetry)
    THEN isTransientError(error)
    ELSE options.shouldRetry.s = "always"

\* options.x ?? DEFAULT_X
orDefault(value, default) == IF Nullish(value) THEN default ELSE value.n

\* `${labelPrefix} after ${attempt} attempt(s): ${getErrorMessage(error)}`
labelPrefix(options) ==
    IF Truthy(options.label)
    THEN <<options.label.s, " failed">>
    ELSE <<"Operation failed">>

\* A message that counts the attempts allowed instead of the attempts made.
FailedAfterAllowed(options, attempt, error) ==
    [prefix |-> labelPrefix(options), after |-> " after ",
     attempts |-> orDefault(options.maxAttempts, DEFAULT_MAX_ATTEMPTS),
     unit |-> " attempt(s): ", cause |-> getErrorMessage(error)]

FailedAfter(options, attempt, error) ==
    [prefix |-> labelPrefix(options), after |-> " after ", attempts |-> attempt,
     unit |-> " attempt(s): ", cause |-> getErrorMessage(error)]

\* new Error(getErrorMessage(lastError)) after the loop
LastErrorMessage(lastError) ==
    [prefix |-> <<>>, after |-> "", attempts |-> 0, unit |-> "",
     cause |-> getErrorMessage(lastError)]

\* The value that the call of fn at this attempt resolves with.
ResultOf(attempt) == [t |-> "result", call |-> attempt]

\* The errors fn raises: HTTP statuses, a socket code, messages.
FnErrors ==
    { ErrorOf(JsNumber(503), JsUndefined, JsString(<<"b", "a", "d">>)),
      ErrorOf(JsNumber(404), JsUndefined, JsString(<<"t", "i", "m", "e", "o", "u", "t">>)),
      ErrorOf(JsUndefined, JsString("ECONNRESET"), JsString(<<"b", "a", "d">>)),
      ErrorOf(JsUndefined, JsUndefined, JsString(<<"N", "e", "t", "w", "o", "r", "k">>)),
      ErrorOf(JsUndefined, JsUndefined, JsString(<<"b", "a", "d">>)) }

\* The options of a call: maxAttempts, the delays, shouldRetry and label,
\* each possibly left out.
RetryOptions ==
    { [maxAttempts |-> maxAttempts, initialDelayMs |-> delays[1],
       factor |-> delays[2], shouldRetry |-> shouldRetry, label |-> label] :
        maxAttempts \in {JsUndefined} \cup {JsNumber(n) : n \in 0..MaxAttempts},
        delays \in { <<JsUndefined, JsUndefined>>, <<JsNumber(1), JsNumber(1)>> },
        shouldRetry \in {JsUndefined, JsString("always"), JsString("never")},
        label \in {JsUndefined, JsString(""), JsString("sample-op")} }

\* retryAsync is entered: the options are read and the loop starts at
\* attempt 1.  history keeps how each call of fn settled.
InitRetry ==
    /\ localPayloadSkills = <<>>
    /\ remotePayloadSkills = <<>>
    /\ call = NoCall
    /\ ret = JsUndefined
    /\ config = [githubToken |-> JsUndefined, gistId |-> JsUndefined,
                 lastSyncAt |-> JsUndefined]
    /\ gist = NoGist
    /\ installed = {}
    /\ run = NoRun
    /\ merges = NoMerges
    /\ \E options \in RetryOptions :
           retry = [pc |-> "loop",
                    options |-> options,
                    maxAttempts |-> orDefault(options.maxAttempts,
                                              DEFAULT_MAX_ATTEMPTS),
                    factor |-> orDefault(options.factor, DEFAULT_FACTOR),
                    delayMs |-> orDefault(options.initialDelayMs,
                                          DEFAULT_INITIAL_DELAY_MS),
                    lastError |-> JsUndefined,
                    attempt |-> 1,
                    history |-> <<>>,
                    slept |-> <<>>,
                    settled |-> JsUndefined]

retryFrame ==
    UNCHANGED <<localPayloadSkills, remotePayloadSkills, call, ret,
                config, gist, installed, run, merges>>

\* `attempt <= maxAttempts` holds: fn is called.
CallFn ==
    /\ retry.pc = "loop"
    /\ retry.attempt <= retry.maxAttempts
    /\ retry' = [retry EXCEPT !.pc = "await"]
    /\ retryFrame

\* A retryAsync that sleeps and calls fn again after fn's promise is
\* fulfilled.
FnFulfilsAndRetries ==
    /\ retry.pc = "await"
    /\ retry' = [retry EXCEPT
                    !.pc = "sleep",
                    !.history = Append(@, [ok |-> TRUE,
                                           value |-> ResultOf(retry.attempt)])]
    /\ retryFrame

\* fn's promise is fulfilled: `return await fn()`.
FnFulfils ==
    /\ retry.pc = "await"
    /\ retry' = [retry EXCEPT
                    !.pc = "done",
                    !.history = Append(@, [ok |-> TRUE,
                                           value |-> ResultOf(retry.attempt)]),
                    !.settled = [t |-> "fulfilled",
                                 value |-> ResultOf(retry.attempt)]]
    /\ retryFrame

\* The catch block once canRetry is computed.
caught(r, error, canRetry) ==
    IF ~canRetry
    THEN [r EXCEPT
             !.pc = "done",
             !.lastError = error,
             !.history = Append(@, [ok |-> FALSE, value |-> error]),
             !.settled = [t |-> "rejected",
                          value |-> FailedAfter(r.options, r.attempt, error)]]
    ELSE [r EXCEPT
             !.pc = "sleep",
             !.lastError = error,
             !.history = Append(@, [ok |-> FALSE, value |-> error])]

\* fn's promise is rejected: the catch block up to the throw or the sleep.
FnRejects ==
    /\ retry.pc = "await"
    /\ \E error \in FnErrors :
           retry' = caught(retry, error,
                           retry.attempt < retry.maxAttempts
                               /\ shouldRetryOf(retry.options, error))
    /\ retryFrame

\* The timer of sleep(delayMs) fires: `delayMs *= factor`, `attempt += 1`.
Wake ==
    /\ retry.pc = "sleep"
    /\ retry' = [retry EXCEPT
                    !.pc = "loop",
                    !.slept = Append(@, retry.delayMs),
                    !.delayMs = @ * retry.factor,
                    !.attempt = @ + 1]
    /\ retryFrame

\* `attempt <= maxAttempts` fails: the throw after the loop.
LeaveLoop ==
    /\ retry.pc = "loop"
    /\ retry.attempt > retry.maxAttempts
    /\ retry' = [retry EXCEPT
                    !.pc = "done",
                    !.settled = [t |-> "rejected",
                                 value |-> LastErrorMessage(retry.lastError)]]
    /\ retryFrame

NextRetry == CallFn \/ FnFulfils \/ FnRejects \/ Wake \/ LeaveLoop

\* A pending promise of fn settles and a timer set fires.
SpecRetry == InitRetry /\ [][NextRetry]_vars /\ WF_vars(NextRetry)

\* The calls of fn made so far, the one in flight included.
CallsMade == Len(retry.history) + (IF retry.pc = "await" THEN 1 ELSE 0)

IsRetrying == retry.pc # "none"

RetryableAt(i) ==
    ~retry.history[i].ok /\ shouldRetryOf(retry.options, retry.history[i].value)

C24_CallsUntilSuccess ==
    (IsRetrying /\ retry.maxAttempts >= 1) =>
        /\ CallsMade <= retry.maxAttempts
        /\ \A i \in 1..Len(retry.history) :
               /\ retry.history[i].ok =>
                      /\ i = Len(retry.history)
                      /\ CallsMade = i
                      /\ retry.pc = "done"
                      /\ retry.settled = [t |-> "fulfilled",
                                          value |-> retry.history[i].value]
               /\ i < Len(retry.history) => RetryableAt(i)
        /\ (retry.pc = "done" /\ retry.settled.t = "fulfilled") =>
               /\ retry.history # <<>>
               /\ retry.history[Len(retry.history)].ok
        /\ (retry.pc = "done" /\ retry.settled.t = "rejected") =>
               /\ retry.history # <<>>
               /\ \/ ~RetryableAt(Len(retry.history))
                  \/ Len(retry.history) = retry.maxAttempts

(***************************************************************************)
(* C24: retryAsync with maxAttempts = n >= 1 calls fn one call at a time   *)
(* until the first success and resolves with the result of that call; fn   *)
(* is never called more than n times and never again after a success, so   *)
(* when every failure is retryable and the k-th call (k <= n) is the first *)
(* to succeed, fn is called exactly k times; and the call settles.         *)
(***************************************************************************)
C24_RetryUntilSuccess ==
    /\ []C24_CallsUntilSuccess
    /\ <>(IsRetrying => retry.pc = "done")

\* Two transient failures, then the third of three attempts succeeds.
C24_Witness ==
    /\ IsRetrying
    /\ retry.pc = "done"
    /\ retry.maxAttempts = 3
    /\ Len(retry.history) = 3
    /\ retry.settled = [t |-> "fulfilled", value |-> ResultOf(3)]
    /\ Nullish(retry.options.shouldRetry)

\* What the rejection message has to read after k calls.
ReadsFailedAfter(message, k) ==
    /\ message.prefix = IF retry.options.label \in {JsUndefined, JsString("")}
                        THEN <<"Operation failed">>
                        ELSE <<retry.options.label.s, " failed">>
    /\ message.after = " after "
    /\ message.attempts = k
    /\ message.unit = " attempt(s): "

(***************************************************************************)
(* C25: retryAsync rejects as soon as a call fails with an error that      *)
(* shouldRetry rejects, or when the maxAttempts-th call fails; the message *)
(* of the rejection reads "<label> failed after k attempt(s)" ("Operation  *)
(* failed after ..." without a label) where k is exactly the number of     *)
(* calls made to fn; an error that is not retryable on the first call      *)
(* means fn is called exactly once.                                        *)
(***************************************************************************)
C25_RetryRejects ==
    IsRetrying =>
        /\ \A i \in 1..Len(retry.history) :
               (/\ ~retry.history[i].ok
                /\ \/ ~shouldRetryOf(retry.options, retry.history[i].value)
                   \/ i = retry.maxAttempts) =>
                   /\ i = Len(retry.history)
                   /\ CallsMade = i
                   /\ retry.pc = "done"
                   /\ retry.settled.t = "rejected"
        /\ (retry.pc = "done" /\ retry.settled.t = "rejected"
                /\ retry.history # <<>>) =>
               ReadsFailedAfter(retry.settled.value, CallsMade)

\* A labelled call allowed three attempts is rejected by the first error,
\* which is not transient.
C25_Witness ==
    /\ IsRetrying
    /\ retry.pc = "done"
    /\ retry.maxAttempts = 3
    /\ retry.options.label = JsString("sample-op")
    /\ Len(retry.history) = 1
    /\ retry.settled.t = "rejected"
    /\ retry.settled.value.attempts = 1
    /\ ~isTransientError(retry.history[1].value)

\* The plan of a merge, auto or pull run that got as far as building it.
ReachedPlan(r) ==
    IF r.mode = "pull"
    THEN ReachedPullPlan(r)
    ELSE RemoteResolved(r) /\ ResolvedBy(r).gistFound

PlanOf(r) ==
    IF r.mode = "pull"
    THEN PullPlanOf(r)
    ELSE IF r.mode = "auto"
         THEN buildAutoPlan(PlanParams(getLocalSkills(r.before.installed),
                                       asPlanPayload(ResolvedBy(r).remotePayload),
                                       ResolvedBy(r).config.lastSyncAt))
         ELSE buildMergePlan(PlanParams(getLocalSkills(r.before.installed),
                                        asPlanPayload(ResolvedBy(r).remotePayload),
                                        JsUndefined))

TimesIn(seq, x) == Cardinality({i \in 1..Len(seq) : seq[i] = x})

\* The run went on to its installs: no dry run, no cancelled pull.
ReachedInstalls(r) == ReachedPlan(r) /\ ~r.dryRun /\ r.error # PullCancelledError

(***************************************************************************)
(* C26: in merge, auto and pull runs no install command is run for a       *)
(* candidate whose source fails isValidSource: the install candidates of   *)
(* the plan are split into the valid and the invalid ones, the commands    *)
(* run are exactly the valid ones, and every invalid one is exactly once   *)
(* in the failed list of the run, with a reason.                           *)
(***************************************************************************)
C26_InvalidSourcesNeverInstalled ==
    (IsRunOf("merge") \/ IsRunOf("auto") \/ IsRunOf("pull")) =>
        /\ \A i \in 1..Len(run.commands) : isValidSource(run.commands[i].source)
        /\ ~ReachedPlan(run) => run.commands = <<>>
        /\ ReachedInstalls(run) =>
               \A skill \in SetOf(PlanOf(run).installCandidates) :
                   IF isValidSource(skill.source)
                   THEN /\ TimesIn(run.commands, skill) = 1
                        /\ \A i \in 1..Len(run.invalid) :
                               run.invalid[i].skill # skill
                   ELSE /\ TimesIn(run.commands, skill) = 0
                        /\ Cardinality({i \in 1..Len(run.failed) :
                                           run.failed[i].skill = skill}) = 1
                        /\ \A i \in 1..Len(run.failed) :
                               run.failed[i].skill = skill =>
                                   /\ run.failed[i].reason # <<>>
                                   /\ run.failed[i].reason
                                          = InvalidSourceReason(skill.source)
        /\ (ReachedPlan(run) /\ run.dryRun) =>
               \A skill \in SetOf(PlanOf(run).installCandidates) :
                   ~isValidSource(skill.source) =>
                       Cardinality({i \in 1..Len(run.failed) :
                                       run.failed[i].skill = skill}) = 1

\* A merge installed one skill of the remote payload and refused another
\* for its source.
C26_Witness ==
    /\ IsRunOf("merge")
    /\ ~run.dryRun
    /\ run.commands # <<>>
    /\ run.invalid # <<>>
    /\ Len(run.failed) = 1
    /\ ~isValidSource(run.failed[1].skill.source)

\* The run reached the end of the command: it returned its summary or
\* finalizeWithFailures raised for the failures in it.
ReachedSummary(r) ==
    r.outcome = "returned" \/ r.error = CompletedWithFailuresError

\* lastSyncAt was set to the run's nowIso, or was left as it was.
LastSyncAtSet ==
    "setLastSyncAt" \in run.effects /\ config.lastSyncAt = JsString(NowIso)
LastSyncAtLeft ==
    "setLastSyncAt" \notin run.effects
        /\ config.lastSyncAt = run.before.config.lastSyncAt

IsApplyingRun ==
    /\ IsRunOf("merge") \/ IsRunOf("auto") \/ IsRunOf("pull")
    /\ ~run.dryRun
    /\ ReachedPlan(run)

(***************************************************************************)
(* C27, as stated: in a merge, auto or pull run that is not a dry run,     *)
(* against an existing gist, lastSyncAt is set to the run's nowIso if and  *)
(* only if the run had no failed operation (invalid-source candidates,     *)
(* failed installs, failed removals); a run with a failure leaves          *)
(* lastSyncAt unchanged.  A run that the gist update or the declined       *)
(* prompt ends has no failed operation and leaves lastSyncAt unchanged.    *)
(***************************************************************************)
C27_LastSyncAtIffNoFailure ==
    IsApplyingRun =>
        /\ run.failed = <<>> <=> LastSyncAtSet
        /\ run.failed # <<>> => LastSyncAtLeft

\* C27, amended: for the runs that reach the end of the command (the gist
\* update did not raise, the prompt was not declined), lastSyncAt is set to
\* the run's nowIso if and only if the run had no failed operation; a run
\* with a failure leaves lastSyncAt unchanged, even when it uploaded a
\* payload; and a run ended before its summary leaves lastSyncAt unchanged.
C27_LastSyncAtIffNoFailureAtSummary ==
    IsApplyingRun =>
        /\ ReachedSummary(run) =>
               /\ run.failed = <<>> <=> LastSyncAtSet
               /\ run.failed # <<>> => LastSyncAtLeft
        /\ ~ReachedSummary(run) => LastSyncAtLeft

\* A merge uploaded a payload and had a failed install: lastSyncAt is as it
\* was.
C27_Witness ==
    /\ IsRunOf("merge")
    /\ IsApplyingRun
    /\ ReachedSummary(run)
    /\ "updateSkillhubGist" \in run.effects
    /\ run.failed # <<>>
    /\ LastSyncAtLeft
    /\ run.before.config.lastSyncAt # JsUndefined

(***************************************************************************)
(* Two runSyncMerge runs on two machines that share the gist.  Each run    *)
(* reads the remote (resolveRemoteState) and later installs and uploads    *)
(* (installSkills, updateSkillhubGist): the awaits between them let the    *)
(* other run in.                                                           *)
(***************************************************************************)
Machines == {1, 2}

\* No --dry-run, no --json, nothing fails.
PlainRun ==
    [dryRun |-> FALSE, json |-> FALSE, yes |-> FALSE, confirm |-> FALSE,
     fault |-> "none", failingNames |-> {}]

\* A machine that is logged in and knows the gist.
LoggedIn ==
    [githubToken |-> JsString("token"), gistId |-> JsString("g1"),
     lastSyncAt |-> JsUndefined]

\* A machine before its run: its config store and its installed skills.
Machine(local) ==
    [pc |-> "start", config |-> LoggedIn, installed |-> local,
     localSkills |-> <<>>, remote |-> JsNull, uploaded |-> JsNull]

InitRace ==
    /\ localPayloadSkills = <<>>
    /\ remotePayloadSkills = <<>>
    /\ call = NoCall
    /\ ret = JsUndefined
    /\ config = [githubToken |-> JsUndefined, gistId |-> JsUndefined,
                 lastSyncAt |-> JsUndefined]
    /\ installed = {}
    /\ run = NoRun
    /\ retry = NoRetry
    /\ gist \in {g \in Gists : g.t = "gist" /\ g.content.t = "object"}
    /\ \E local1 \in Inventories, local2 \in Inventories :
           merges = [m |-> <<Machine(local1), Machine(local2)>>,
                     first |-> gist,
                     log |-> <<>>]

raceFrame ==
    UNCHANGED <<localPayloadSkills, remotePayloadSkills, call, ret,
                config, installed, run, retry>>

\* runSyncMerge up to the answer of resolveRemoteState.
MergeRead(p) ==
    /\ merges # NoMerges
    /\ merges.m[p].pc = "start"
    /\ ~throwsAtStart(merges.m[p].config, PlainRun)
    /\ merges' = [merges EXCEPT
                     !.m[p].pc = "resolved",
                     !.m[p].localSkills = getLocalSkills(merges.m[p].installed),
                     !.m[p].remote = resolveRemoteState(merges.m[p].config, gist,
                                                        PlainRun.fault),
                     !.log = Append(@, [step |-> "read", machine |-> p])]
    /\ UNCHANGED gist
    /\ raceFrame

\* The machine once the rest of its run is made.
afterMerge(machine, result) ==
    [machine EXCEPT
        !.pc = "done",
        !.config = result.config,
        !.installed = result.installed,
        !.uploaded = IF "updateSkillhubGist" \in result.effects
                     THEN result.gist.content
                     ELSE JsNull]

mergeWritten(p, result) ==
    /\ gist' = result.gist
    /\ merges' = [merges EXCEPT
                     !.m[p] = afterMerge(merges.m[p], result),
                     !.log = Append(@, [step |-> "write", machine |-> p])]

\* runSyncMerge from the plan on: installSkills, updateSkillhubGist on the
\* gist as it is now, setLastSyncAt.
MergeWrite(p) ==
    /\ merges # NoMerges
    /\ merges.m[p].pc = "resolved"
    /\ mergeWritten(p, runSyncMergeResolved(gist, merges.m[p].installed,
                                            PlainRun, merges.m[p].localSkills,
                                            merges.m[p].remote))
    /\ raceFrame

NextRace ==
    \/ \E p \in Machines : MergeRead(p)
    \/ \E p \in Machines : MergeWrite(p)

SpecRace == InitRace /\ [][NextRace]_vars

\* Both runs are over, and both read the remote before either wrote.
RaceOver ==
    /\ merges # NoMerges
    /\ \A p \in Machines : merges.m[p].pc = "done"
BothReadFirst ==
    /\ RaceOver
    /\ merges.log[1].step = "read"
    /\ merges.log[2].step = "read"

\* The machine of the last step, and the other one.
LastWriter == merges.log[Len(merges.log)].machine
OtherThan(p) == CHOOSE q \in Machines : q # p

SkillsOf(content) == SetOf(normalizeSkills(content.skills))

(***************************************************************************)
(* C28: the remote write is unconditional: when two merge runs interleave  *)
(* so that both read the remote payload before either uploads, the final   *)
(* remote payload is the one written last, which holds the skills of the   *)
(* last writer and of the payload both read, and nothing of what the other *)
(* run uploaded besides.                                                   *)
(***************************************************************************)
C28_LastWriteWins ==
    (BothReadFirst /\ merges.m[LastWriter].uploaded # JsNull) =>
        /\ gist.content = merges.m[LastWriter].uploaded
        /\ SkillsOf(gist.content)
               = SetOf(merges.m[LastWriter].localSkills)
                     \cup SkillsOf(merges.first.content)

\* The final payload lacks a skill that the run that wrote first uploaded.
C28_Witness ==
    /\ BothReadFirst
    /\ merges.m[LastWriter].uploaded # JsNull
    /\ merges.m[OtherThan(LastWriter)].uploaded # JsNull
    /\ \E skill \in SkillsOf(merges.m[OtherThan(LastWriter)].uploaded) :
           skill \notin SkillsOf(gist.content)

\* The plan of a merge run made next, with nothing changed in between and
\* nothing failing.
NextMergePlan ==
    buildMergePlan(PlanParams(getLocalSkills(installed),
                              asPlanPayload(resolveRemoteState(config, gist, "none")
                                                .remotePayload),
                              JsUndefined))

\* A merge that is not a dry run, met a readable payload and had every
\* install succeed.
IsCleanMerge ==
    /\ IsRunOf("merge")
    /\ ~run.dryRun
    /\ run.fault = "none"
    /\ run.outcome = "returned"
    /\ run.failed = <<>>
    /\ HasPayload(run.before.gist)

(***************************************************************************)
(* C29: merge converges in one run: after a runSyncMerge that is not a dry *)
(* run and in which every install succeeds, the installed skills and the   *)
(* remote skills are both the union of the two sets before the run, and a  *)
(* merge run made next finds no install candidate and no payload to upload. *)
(***************************************************************************)
C29_MergeConverges ==
    IsCleanMerge =>
        /\ installed = run.before.installed \cup PayloadSkillsOf(run.before.gist)
        /\ HasPayload(gist)
        /\ PayloadSkillsOf(gist)
               = run.before.installed \cup PayloadSkillsOf(run.before.gist)
        /\ NextMergePlan.installCandidates = <<>>
        /\ NextMergePlan.uploadPayload = JsNull

\* The plan of an auto run made next, with nothing changed in between and
\* nothing failing.
NextAutoPlan ==
    buildAutoPlan(PlanParams(getLocalSkills(installed),
                             asPlanPayload(resolveRemoteState(config, gist, "none")
                                               .remotePayload),
                             resolveRemoteState(config, gist, "none")
                                 .config.lastSyncAt))

\* A merge, auto or push run that is not a dry run, had no failure and
\* created or updated the gist.
WroteRemote ==
    /\ IsRunOf("merge") \/ IsRunOf("auto") \/ IsRunOf("push")
    /\ ~run.dryRun
    /\ run.failed = <<>>
    /\ run.effects \cap {"createSkillhubGist", "updateSkillhubGist"} # {}

=============================================================================
